---- MODULE Spec2Model ----
(***************************************************************************)
(* A model of the qcow2 image engine of qcow/src/qcow.rs and               *)
(* qcow/src/qcow_raw_file.rs: header codec, raw file adapter, L1/L2        *)
(* address translation, refcount manager, block caches, allocator and the  *)
(* flush protocol.                                                         *)
(*                                                                         *)
(* The backing file is a length plus a sparse map from byte offset to a    *)
(* non-zero byte (an offset outside the map reads as zero), so that        *)
(* pointer tables, refcount blocks and guest data share one byte store and *)
(* a cluster that changes its role keeps the bytes its previous role left. *)
(* In-memory tables and cached blocks are sparse maps from index to a      *)
(* non-zero entry.  64-bit quantities are naturals below 2^31; a word read *)
(* from the file that does not fit is the value Huge.                      *)
(***************************************************************************)
EXTENDS Integers, Sequences, FiniteSets, TLC

(***************************************************************************)
(* Program constants (qcow.rs:52-67).                                      *)
(***************************************************************************)
QCOW_MAGIC == 1363560955
DEFAULT_CLUSTER_BITS == 16
MAX_CLUSTER_BITS == 30
DEFAULT_REFCOUNT_ORDER == 4
V3_BARE_HEADER_SIZE == 104
\* The top byte (bits 56..63) of the flags; the offset masks clear this byte
\* and the nine low bits.
CLUSTER_USED_FLAG == 128
COMPRESSED_FLAG == 64
OFFSET_MASK_LOW == 512
\* Capacities handed to the caches by QcowFile::from.
REFBLOCK_CACHE_CAPACITY == 25

(***************************************************************************)
(* Bounds of the model.                                                    *)
(***************************************************************************)
\* Capacity the L2 hash map reports (the source asks for at least 100).
L2CacheCapacity == 2
\* Reads, writes and flushes in one behaviour.
MaxOps == 6
\* Depth of the recursion of set_cluster_refcount the model follows.
MaxDepth == 6

\* A 64-bit value the model's naturals cannot hold, and Option::None.
Huge == 2147483646 + 1
None == 0 - 1

Pow2(n) == 2 ^ n
Min(a, b) == IF a < b THEN a ELSE b
Max(a, b) == IF a > b THEN a ELSE b

(***************************************************************************)
(* Sparse maps: index -> non-zero value.                                   *)
(***************************************************************************)
Empty == [i \in {} |-> 0]
Get(m, i) == IF i \in DOMAIN m THEN m[i] ELSE 0
Put(m, i, v) ==
  IF v = 0 THEN [j \in DOMAIN m \ {i} |-> m[j]]
  ELSE [j \in DOMAIN m \cup {i} |-> IF j = i THEN v ELSE m[j]]

\* Ceiling of the division of `dividend`/`divisor`.
div_round_up_u64(dividend, divisor) == (dividend + divisor - 1) \div divisor
div_round_up_u32(dividend, divisor) == (dividend + divisor - 1) \div divisor

(***************************************************************************)
(* Big-endian codecs over the byte store.                                  *)
(***************************************************************************)
\* Byte k (0 = most significant) of the 64-bit word whose low 56 bits are
\* val and whose top byte is top.
U64Byte(val, top, k) ==
  CASE k = 0 -> top
    [] k \in 1..3 -> 0
    [] k = 4 -> (val \div 16777216) % 256
    [] k = 5 -> (val \div 65536) % 256
    [] k = 6 -> (val \div 256) % 256
    [] OTHER -> val % 256

U32Byte(val, k) ==
  CASE k = 0 -> (val \div 16777216) % 256
    [] k = 1 -> (val \div 65536) % 256
    [] k = 2 -> (val \div 256) % 256
    [] OTHER -> val % 256

U16Byte(val, k) == IF k = 0 THEN (val \div 256) % 256 ELSE val % 256

\* read_u64::<BigEndian>() & mask; masked selects the offset mask
\* 0x00ff_ffff_ffff_fe00, otherwise the mask is all ones.
DecodeU64(data, off, masked) ==
  LET b(k) == Get(data, off + k)
  IN IF (~masked /\ b(0) # 0) \/ b(1) # 0 \/ b(2) # 0 \/ b(3) # 0 \/ b(4) >= 128
     THEN Huge
     ELSE LET v == b(4) * 16777216 + b(5) * 65536 + b(6) * 256 + b(7)
          IN IF masked THEN v - (v % OFFSET_MASK_LOW) ELSE v

\* The top byte (bits 56..63) of the word read_u64::<BigEndian>() & mask
\* yields: the offset mask clears it.
DecodeTop(data, off, masked) == IF masked THEN 0 ELSE Get(data, off)

\* entry & flag != 0 for a flag of the top byte.
HasFlag(top, flag) == (top \div flag) % 2 = 1

DecodeU32(data, off) ==
  LET b(k) == Get(data, off + k)
  IN IF b(0) >= 128 THEN Huge
     ELSE b(0) * 16777216 + b(1) * 65536 + b(2) * 256 + b(3)

DecodeU16(data, off) == Get(data, off) * 256 + Get(data, off + 1)

(***************************************************************************)
(* The engine is a record q: the fields of QcowFile and of QcowRawFile     *)
(* (the file is file_len and file_data; stable_len and stable_data are     *)
(* what has reached stable storage), and the registers of the operation in *)
(* progress: err (its io::Result), ret (its return value), iofail (the     *)
(* number of file operations that succeed before one fails, None for no    *)
(* failure), order (the iteration order of the L2 hash map), log (the      *)
(* file operations performed, in order), accept (the most bytes the file   *)
(* takes in one write of data, None for all of them) and refcap (the       *)
(* capacity the refcount-block cache was built with).                      *)
(***************************************************************************)
OK == "ok"
Failed(q) == q.err # OK
Fail(q, e) == [q EXCEPT !.err = e]
\* `let v = e;`: e is evaluated once and named.
Let(v, F(_)) == F(v)
\* `let q = e?;`: an operation that failed ends the operation around it.
Then(q, F(_)) == IF Failed(q) THEN q ELSE F(q)

\* One operation on the backing file: it fails when the failure countdown
\* has run out, and is logged otherwise.
Io(q, ev) ==
  IF q.iofail = 0 THEN [q EXCEPT !.err = "EIO", !.iofail = None]
  ELSE [q EXCEPT !.iofail = IF @ > 0 THEN @ - 1 ELSE @,
                 !.log = Append(@, ev)]

\* file.seek(off); file.write(..): n bytes at off, bytes being the non-zero
\* ones by absolute offset.
FileWrite(q, off, n, bytes) ==
  LET old == q.file_data
      range == off..(off + n - 1)
  IN [q EXCEPT !.file_len = IF n = 0 THEN @ ELSE Max(@, off + n),
               !.file_data = [o \in (DOMAIN old \ range) \cup DOMAIN bytes |->
                                IF o \in DOMAIN bytes THEN bytes[o] ELSE old[o]]]

(***************************************************************************)
(* QcowRawFile (qcow_raw_file.rs).                                         *)
(***************************************************************************)
read_pointer_table(q0, offset, count, masked) ==
  Then(Io(q0, <<"read", offset>>), LAMBDA q :
    IF offset + 8 * count > q.file_len THEN Fail(q, "EOF")
    ELSE LET touched == {(o - offset) \div 8 :
                           o \in {x \in DOMAIN q.file_data :
                                    x >= offset /\ x < offset + 8 * count}}
             val(i) == DecodeU64(q.file_data, offset + 8 * i, masked)
         IN [q EXCEPT !.ret = [i \in {j \in touched : val(j) # 0} |-> val(i)]])

read_pointer_cluster(q, offset, masked) ==
  read_pointer_table(q, offset, q.cluster_size \div 8, masked)

\* A writer that stores the words as they are, without the flags.
write_pointer_table_unflagged(q0, offset, table, non_zero_flags, ev) ==
  LET cell(o) == U64Byte(table.vec[(o - offset) \div 8], 0, (o - offset) % 8)
      dom == {o \in {offset + 8 * i + k : i \in DOMAIN table.vec, k \in 0..7} :
                cell(o) # 0}
  IN Then(Io(q0, <<ev, offset>>), LAMBDA q :
       FileWrite(q, offset, 8 * table.len, [o \in dom |-> cell(o)]))

write_pointer_table(q0, offset, table, non_zero_flags, ev) ==
  LET cell(o) == U64Byte(table.vec[(o - offset) \div 8], non_zero_flags,
                         (o - offset) % 8)
      dom == {o \in {offset + 8 * i + k : i \in DOMAIN table.vec, k \in 0..7} :
                cell(o) # 0}
  IN Then(Io(q0, <<ev, offset>>), LAMBDA q :
       FileWrite(q, offset, 8 * table.len, [o \in dom |-> cell(o)]))

read_refcount_block(q0, offset) ==
  Then(Io(q0, <<"read", offset>>), LAMBDA q :
    IF offset + q.cluster_size > q.file_len THEN Fail(q, "EOF")
    ELSE LET touched == {(o - offset) \div 2 :
                           o \in {x \in DOMAIN q.file_data :
                                    x >= offset /\ x < offset + q.cluster_size}}
         IN [q EXCEPT !.ret =
               [i \in touched |-> DecodeU16(q.file_data, offset + 2 * i)]])

write_refcount_block(q0, offset, table) ==
  LET cell(o) == U16Byte(table.vec[(o - offset) \div 2], (o - offset) % 2)
      dom == {o \in {offset + 2 * i + k : i \in DOMAIN table.vec, k \in 0..1} :
                cell(o) # 0}
  IN Then(Io(q0, <<"refblock", offset>>), LAMBDA q :
       FileWrite(q, offset, 2 * table.len, [o \in dom |-> cell(o)]))

add_cluster_end(q0) ==
  Then(Io(q0, <<"set_len", q0.file_len>>), LAMBDA q :
    Let(((q.file_len + q.cluster_size - 1) \div q.cluster_size) * q.cluster_size,
        LAMBDA new_cluster_address :
          [q EXCEPT !.file_len = new_cluster_address + q.cluster_size,
                    !.ret = new_cluster_address]))

\* A sync that makes nothing stable.
sync_file_nothing(q0, ev) == Io(q0, <<ev, 0>>)

\* File::sync_all and File::sync_data: everything written so far is stable.
sync_file(q0, ev) ==
  Then(Io(q0, <<ev, 0>>), LAMBDA q :
    [q EXCEPT !.stable_len = q.file_len, !.stable_data = q.file_data])

(***************************************************************************)
(* VecCache and L2Cache (module l2_cache).                                 *)
(***************************************************************************)
VecCacheNew(count) == [vec |-> Empty, len |-> count, dirty |-> FALSE]
VecCacheFromVec(vec, count) == [vec |-> vec, len |-> count, dirty |-> FALSE]
VecCacheSet(c, index, val) == [c EXCEPT !.vec = Put(@, index, val), !.dirty = TRUE]
\* A mark_clean that leaves the dirty bit set.
VecCacheKeptDirty(c) == c
VecCacheClean(c) == [c EXCEPT !.dirty = FALSE]

\* The plain vectors l1_table and ref_table as a table to write.
Table(vec, count) == [vec |-> vec, len |-> count]

Without(m, k) == [j \in DOMAIN m \ {k} |-> m[j]]
With(m, k, v) == [j \in DOMAIN m \cup {k} |-> IF j = k THEN v ELSE m[j]]

\* L2Cache::insert on a cache of the given capacity: the entry evicted to
\* make room, never the one inserted.
L2CacheVictimAt(cache, idx, capacity) ==
  IF idx \notin DOMAIN cache /\ Cardinality(DOMAIN cache) >= capacity
  THEN CHOOSE k \in DOMAIN cache : \A j \in DOMAIN cache : k <= j
  ELSE None

\* L2Cache::insert on the cache from builds.
L2CacheVictim(cache, idx) ==
  L2CacheVictimAt(cache, idx, REFBLOCK_CACHE_CAPACITY)

(***************************************************************************)
(* QcowFile: geometry (qcow.rs:409-448).                                   *)
(***************************************************************************)
virtual_size(q) == q.header.size

\* A range cut to its first byte.
limit_range_first_byte(q, address, count) == Min(count, 1)

limit_range_file(q, address, count) ==
  IF address > virtual_size(q) THEN 0
  ELSE Min(count, virtual_size(q) - address)

\* A range that is not cut at the end of the cluster.
limit_range_unclipped(q, address, count) == count

limit_range_cluster(q, address, count) ==
  Min(count, q.cluster_size - (address % q.cluster_size))

l1_table_index(q, address) == (address \div q.cluster_size) \div q.l2_entries
l2_table_index(q, address) == (address \div q.cluster_size) % q.l2_entries
l1_address_offset(q, address) == l1_table_index(q, address) * 8
cluster_offset(q, address) == address % q.cluster_size

(***************************************************************************)
(* Allocator and refcount manager (qcow.rs:578-700).                       *)
(***************************************************************************)
\* An allocator that always extends the file.
get_new_cluster_at_end(q) == add_cluster_end(q)

get_new_cluster(q) ==
  IF Len(q.avail_clusters) > 0
  THEN [q EXCEPT !.avail_clusters = SubSeq(@, 1, Len(@) - 1),
                 !.ret = q.avail_clusters[Len(q.avail_clusters)]]
  ELSE add_cluster_end(q)

cache_refcount_table(q, table_index, table) ==
  Let(IF q.refcap = REFBLOCK_CACHE_CAPACITY
      THEN L2CacheVictim(q.refblock_cache, table_index)
      ELSE L2CacheVictimAt(q.refblock_cache, table_index, q.refcap),
      LAMBDA evicted_idx :
    IF evicted_idx = None
    THEN [q EXCEPT !.refblock_cache = With(@, table_index, table)]
    ELSE Let([q EXCEPT !.refblock_cache =
                          With(Without(@, evicted_idx), table_index, table)],
             LAMBDA q1 :
               IF ~q.refblock_cache[evicted_idx].dirty THEN q1
               ELSE IF Get(q.ref_table, evicted_idx) # 0
               THEN write_refcount_block(q1, Get(q.ref_table, evicted_idx),
                                         q.refblock_cache[evicted_idx])
               ELSE q1))

get_refcount_index(q, address) ==
  <<(address \div q.cluster_size) \div q.refcount_block_entries,
    (address \div q.cluster_size) % q.refcount_block_entries>>

\* The first half of set_cluster_refcount: the block is brought into the
\* cache, a block that does not exist yet being created on a new cluster.
\* The result is the engine and the local new_cluster.
RefblockCached(q, table_index, stored_addr) ==
  IF table_index \in DOMAIN q.refblock_cache THEN [q |-> q, new_cluster |-> None]
  ELSE IF stored_addr = 0
  THEN Let(get_new_cluster(q), LAMBDA a :
         IF Failed(a) THEN [q |-> a, new_cluster |-> None]
         ELSE [q |-> cache_refcount_table(
                       [a EXCEPT !.ref_table = Put(@, table_index, a.ret)],
                       table_index, VecCacheNew(a.l2_entries)),
               new_cluster |-> a.ret])
  ELSE Let(read_refcount_block(q, stored_addr), LAMBDA r :
         IF Failed(r) THEN [q |-> r, new_cluster |-> None]
         ELSE [q |-> cache_refcount_table(
                       r, table_index,
                       VecCacheFromVec(r.ret, r.cluster_size \div 2)),
               new_cluster |-> None])

\* A second half that leaves every block on its cluster.
RefblockRotated_in_place(s, table_index, stored_addr) ==
  [q |-> s.q, new_cluster |-> s.new_cluster, old_cluster |-> None]

\* The second half: a clean block moves to a new cluster before it is
\* changed, its old cluster becoming unreferenced.
RefblockRotated(s, table_index, stored_addr) ==
  IF Failed(s.q) THEN [q |-> s.q, new_cluster |-> s.new_cluster, old_cluster |-> None]
  ELSE IF ~s.q.refblock_cache[table_index].dirty
  THEN Let(get_new_cluster(
             IF stored_addr # 0
             THEN [s.q EXCEPT !.unref_clusters = Append(@, stored_addr)]
             ELSE s.q),
           LAMBDA a :
             [q |-> IF Failed(a) THEN a
                    ELSE [a EXCEPT !.ref_table = Put(@, table_index, a.ret)],
              new_cluster |-> IF Failed(a) THEN s.new_cluster ELSE a.ret,
              old_cluster |-> IF stored_addr # 0 THEN stored_addr ELSE None])
  ELSE [q |-> s.q, new_cluster |-> s.new_cluster, old_cluster |-> None]

RECURSIVE set_cluster_refcount(_, _, _, _)
set_cluster_refcount(q, address, refcount, depth) ==
  IF Failed(q) THEN q
  ELSE IF depth = 0 THEN Fail(q, "depth")
  ELSE Let(get_refcount_index(q, address), LAMBDA index :
    IF index[1] >= q.ref_len THEN Fail(q, "panic")
    ELSE Let(RefblockRotated(
               RefblockCached(q, index[1], Get(q.ref_table, index[1])),
               index[1], Get(q.ref_table, index[1])),
             LAMBDA s :
      IF Failed(s.q) THEN s.q
      ELSE IF index[2] >= s.q.refblock_cache[index[1]].len
      THEN Fail(s.q, "panic")
      ELSE Then(IF s.old_cluster # None
                THEN set_cluster_refcount(
                       [s.q EXCEPT !.refblock_cache[index[1]] =
                                      VecCacheSet(@, index[2], refcount)],
                       s.old_cluster, 0, depth - 1)
                ELSE [s.q EXCEPT !.refblock_cache[index[1]] =
                                    VecCacheSet(@, index[2], refcount)],
                LAMBDA q2 :
                  IF s.new_cluster # None
                  THEN set_cluster_refcount(q2, s.new_cluster, 1, depth - 1)
                  ELSE q2)))

\* The block of table_index brought into the cache for a lookup.
RefblockLoaded(q, table_index, stored_addr) ==
  IF table_index \in DOMAIN q.refblock_cache THEN q
  ELSE Then(read_refcount_block(q, stored_addr), LAMBDA r :
         cache_refcount_table(r, table_index,
                              VecCacheFromVec(r.ret, r.cluster_size \div 2)))

get_cluster_refcount(q, address) ==
  Let(get_refcount_index(q, address), LAMBDA index :
    IF index[1] >= q.ref_len THEN Fail(q, "panic")
    ELSE IF Get(q.ref_table, index[1]) = 0 THEN [q EXCEPT !.ret = 0]
    ELSE Then(RefblockLoaded(q, index[1], Get(q.ref_table, index[1])),
              LAMBDA q1 :
                IF index[2] >= q1.refblock_cache[index[1]].len
                THEN Fail(q1, "panic")
                ELSE [q1 EXCEPT !.ret = Get(q1.refblock_cache[index[1]].vec,
                                            index[2])]))

\* A data cluster handed out with no refcount set.
append_data_cluster_uncounted(q) == get_new_cluster(q)


append_data_cluster(q) ==
  Then(get_new_cluster(q), LAMBDA a :
    [set_cluster_refcount(a, a.ret, 1, MaxDepth) EXCEPT !.ret = a.ret])

\* The scan of first_zero_refcount from cluster_addr on.
RECURSIVE FirstZeroFrom(_, _)
FirstZeroFrom(q, cluster_addr) ==
  IF cluster_addr >= q.file_len THEN [q EXCEPT !.ret = None]
  ELSE Then(get_cluster_refcount(q, cluster_addr), LAMBDA r :
         IF r.ret = 0 THEN [r EXCEPT !.ret = cluster_addr]
         ELSE FirstZeroFrom(r, cluster_addr + q.cluster_size))

first_zero_refcount(q) == FirstZeroFrom(q, 0)

(***************************************************************************)
(* Address translation (qcow.rs:450-613).                                  *)
(***************************************************************************)
write_l2_cluster(q, l1_index, cluster) ==
  IF Get(q.l1_table, l1_index) # 0
  THEN write_pointer_table(q, Get(q.l1_table, l1_index), cluster,
                           CLUSTER_USED_FLAG, "l2")
  ELSE Fail(q, "EINVAL")

\* The keys of the L2 hash map in the order its iterator yields them.
L2Keys(q) == SelectSeq(q.order, LAMBDA k : k \in DOMAIN q.l2_cache)

\* The first key of the map that is not `except`, 0 when there is none.
L2EvictKey(q, except) ==
  Let(SelectSeq(L2Keys(q), LAMBDA k : k # except), LAMBDA others :
    IF Len(others) > 0 THEN others[1] ELSE 0)

\* check_l2_evict when the hash map reports the capacity `capacity`.
check_l2_evict_with(q, except, capacity) ==
  IF Cardinality(DOMAIN q.l2_cache) = capacity
  THEN Let(L2EvictKey(q, except), LAMBDA to_evict :
         IF to_evict \in DOMAIN q.l2_cache
         THEN IF q.l2_cache[to_evict].dirty
              THEN write_l2_cluster([q EXCEPT !.l2_cache = Without(@, to_evict)],
                                    to_evict, q.l2_cache[to_evict])
              ELSE [q EXCEPT !.l2_cache = Without(@, to_evict)]
         ELSE q)
  ELSE q

check_l2_evict(q, except) == check_l2_evict_with(q, except, L2CacheCapacity)

\* The cache lookup of file_offset_read: the engine with the L2 table of
\* l1_index cached, or with ret None when the L1 entry is empty.
L2Looked(q, l1_index, l2_addr_disk) ==
  IF l1_index \in DOMAIN q.l2_cache THEN [q EXCEPT !.ret = 0]
  ELSE IF l2_addr_disk = 0 THEN [q EXCEPT !.ret = None]
  ELSE Then(read_pointer_cluster(q, l2_addr_disk, TRUE), LAMBDA r :
         [r EXCEPT !.l2_cache = With(@, l1_index,
                                     VecCacheFromVec(r.ret, r.l2_entries)),
                   !.ret = 0])

file_offset_read(q, address) ==
  IF address >= virtual_size(q) \/ l1_table_index(q, address) >= q.header.l1_size
  THEN Fail(q, "EINVAL")
  ELSE Let(l1_table_index(q, address), LAMBDA l1_index :
    Then(L2Looked(q, l1_index, Get(q.l1_table, l1_index)), LAMBDA looked :
      IF looked.ret = None THEN looked
      ELSE Let(Get(looked.l2_cache[l1_index].vec, l2_table_index(q, address)),
               LAMBDA cluster_addr :
        Then(check_l2_evict(looked, l1_index), LAMBDA q2 :
          IF cluster_addr = 0 THEN [q2 EXCEPT !.ret = None]
          ELSE [q2 EXCEPT !.ret = cluster_addr + cluster_offset(q, address)]))))

\* The vacant-entry branch of file_offset_write: the L2 table is created on
\* a new cluster, or loaded from the cluster the L1 table names.
L2Inserted(q, l1_index, l2_addr_disk) ==
  IF l2_addr_disk = 0
  THEN Then(get_new_cluster(q), LAMBDA a :
         Then(set_cluster_refcount(a, a.ret, 1, MaxDepth), LAMBDA b :
           [b EXCEPT !.l1_table = Put(@, l1_index, a.ret),
                     !.l2_cache = With(@, l1_index, VecCacheNew(b.l2_entries))]))
  ELSE Then(read_pointer_cluster(q, l2_addr_disk, TRUE), LAMBDA r :
         [r EXCEPT !.l2_cache = With(@, l1_index,
                                     VecCacheFromVec(r.ret, r.l2_entries))])

\* The new cluster of a rotated L2 table, counted and entered in the L1
\* table.
L2Moved(u, l1_index) ==
  Then(get_new_cluster(u), LAMBDA a :
    Then(set_cluster_refcount(a, a.ret, 1, MaxDepth), LAMBDA b :
      [b EXCEPT !.l1_table = Put(@, l1_index, a.ret)]))

\* A rotation that leaves the refcount of the old cluster as it was.
L2Rotated_keeping_count(q, l1_index) ==
  IF q.l2_cache[l1_index].dirty THEN q
  ELSE IF Get(q.l1_table, l1_index) # 0
  THEN L2Moved([q EXCEPT !.unref_clusters = Append(@, Get(q.l1_table, l1_index))],
               l1_index)
  ELSE L2Moved(q, l1_index)

\* No rotation: the table stays on its cluster.
L2Rotated_in_place(q, l1_index) == q

\* The rotation of a clean L2 table to a new cluster (qcow.rs:544-564).
L2Rotated(q, l1_index) ==
  IF q.l2_cache[l1_index].dirty THEN q
  ELSE IF Get(q.l1_table, l1_index) # 0
  THEN Then(set_cluster_refcount(
              [q EXCEPT !.unref_clusters = Append(@, Get(q.l1_table, l1_index))],
              Get(q.l1_table, l1_index), 0, MaxDepth),
            LAMBDA u : L2Moved(u, l1_index))
  ELSE L2Moved(q, l1_index)

\* The data cluster of the entry l2_index, allocated when the entry is
\* empty (qcow.rs:541-564).
L2Entry(q1, l1_index, l2_index) ==
  IF Get(q1.l2_cache[l1_index].vec, l2_index) # 0
  THEN [q1 EXCEPT !.ret = Get(q1.l2_cache[l1_index].vec, l2_index)]
  ELSE Then(append_data_cluster(q1), LAMBDA d :
         Then(L2Rotated(d, l1_index), LAMBDA r :
           [r EXCEPT !.l2_cache[l1_index] = VecCacheSet(@, l2_index, d.ret),
                     !.ret = d.ret]))

file_offset_write(q, address) ==
  IF address >= virtual_size(q) \/ l1_table_index(q, address) >= q.header.l1_size
  THEN Fail(q, "EINVAL")
  ELSE Let(l1_table_index(q, address), LAMBDA l1_index :
    Then(IF l1_index \in DOMAIN q.l2_cache THEN q
         ELSE L2Inserted(q, l1_index, Get(q.l1_table, l1_index)),
         LAMBDA q1 :
      Then(L2Entry(q1, l1_index, l2_table_index(q, address)), LAMBDA q2 :
        Then(check_l2_evict(q2, l1_index), LAMBDA q3 :
          [q3 EXCEPT !.ret = q2.ret + cluster_offset(q, address)]))))

(***************************************************************************)
(* Read, Write, flush and Drop (qcow.rs:702-848).                          *)
(***************************************************************************)
RECURSIVE ReadLoop(_, _, _, _, _)
ReadLoop(q, address, read_count, nread, buf) ==
  IF nread >= read_count
  THEN [q EXCEPT !.current_offset = @ + read_count, !.ret = buf]
  ELSE Let(limit_range_cluster(q, address + nread, read_count - nread),
           LAMBDA count :
    Then(file_offset_read(q, address + nread), LAMBDA t :
      IF t.ret = None
      THEN ReadLoop(t, address, read_count, nread + count,
                    buf \o [i \in 1..count |-> 0])
      ELSE Then(Io(t, <<"read", t.ret>>), LAMBDA r :
             IF t.ret + count > r.file_len THEN Fail(r, "EOF")
             ELSE ReadLoop(r, address, read_count, nread + count,
                           buf \o [i \in 1..count |->
                                     Get(r.file_data, t.ret + i - 1)]))))

\* A read that takes a cluster from the allocator before it starts.
read_allocating(q, len) ==
  Then(get_new_cluster(q), LAMBDA a :
    ReadLoop(a, a.current_offset, limit_range_file(a, a.current_offset, len),
             0, <<>>))

read(q, len) ==
  ReadLoop(q, q.current_offset, limit_range_file(q, q.current_offset, len), 0, <<>>)

RECURSIVE WriteLoop(_, _, _, _, _)
WriteLoop(q, address, write_count, nwritten, buf) ==
  IF nwritten >= write_count
  THEN [q EXCEPT !.current_offset = @ + write_count, !.ret = write_count]
  ELSE Let(limit_range_cluster(q, address + nwritten, write_count - nwritten),
           LAMBDA count :
    Then(file_offset_write(q, address + nwritten), LAMBDA t :
      Then(Io(t, <<"data", t.ret>>), LAMBDA w :
        Let(IF w.accept = None THEN count ELSE Min(count, w.accept),
            LAMBDA accepted :
          WriteLoop(
            FileWrite(w, t.ret, accepted,
                      [o \in {t.ret + i - 1 :
                                i \in {j \in 1..accepted : buf[nwritten + j] # 0}}
                         |-> buf[nwritten + (o - t.ret) + 1]]),
            address, write_count, nwritten + count, buf)))))

\* A write that takes a cluster from the allocator before it starts.
write_allocating(q, buf) ==
  Then(get_new_cluster(q), LAMBDA a :
    WriteLoop(a, a.current_offset,
              limit_range_file(a, a.current_offset, Len(buf)), 0, buf))

write(q, buf) ==
  WriteLoop(q, q.current_offset, limit_range_file(q, q.current_offset, Len(buf)),
            0, buf)

\* A seek that takes any target.
seek_unchecked(q, new_offset) ==
  [q EXCEPT !.current_offset = new_offset, !.ret = new_offset]

\* Offsets a seek can ask for are inside u64; a target that overflowed or
\* went negative is None here.
seek(q, new_offset) ==
  IF new_offset # None /\ new_offset <= virtual_size(q)
  THEN [q EXCEPT !.current_offset = new_offset, !.ret = new_offset]
  ELSE Fail(q, "EINVAL")

\* The loop of sync_caches over the dirty L2 tables, keys being those left.
RECURSIVE SyncL2(_, _)
SyncL2(q, keys) ==
  IF Len(keys) = 0 THEN q
  ELSE IF ~q.l2_cache[Head(keys)].dirty THEN SyncL2(q, Tail(keys))
  ELSE IF Get(q.l1_table, Head(keys)) = 0 THEN Fail(q, "EINVAL")
  ELSE Then(write_pointer_table(q, Get(q.l1_table, Head(keys)),
                                q.l2_cache[Head(keys)], CLUSTER_USED_FLAG, "l2"),
            LAMBDA w :
              SyncL2([w EXCEPT !.l2_cache[Head(keys)] = VecCacheClean(@)],
                     Tail(keys)))

\* The loop over the dirty refcount blocks, in index order from ref_index;
\* the indexes that hold no block are passed over in one step.
RECURSIVE SyncRefblocks(_, _)
SyncRefblocks(q, ref_index) ==
  IF \A k \in DOMAIN q.refblock_cache : k < ref_index THEN q
  ELSE IF ref_index \notin DOMAIN q.refblock_cache
  THEN SyncRefblocks(q, CHOOSE k \in DOMAIN q.refblock_cache :
                          /\ k > ref_index
                          /\ \A j \in DOMAIN q.refblock_cache :
                               j > ref_index => k <= j)
  ELSE IF ~q.refblock_cache[ref_index].dirty
  THEN SyncRefblocks(q, ref_index + 1)
  ELSE IF Get(q.ref_table, ref_index) = 0 THEN Fail(q, "EINVAL")
  ELSE Then(write_refcount_block(q, Get(q.ref_table, ref_index),
                                 q.refblock_cache[ref_index]),
            LAMBDA w :
              SyncRefblocks([w EXCEPT !.refblock_cache[ref_index] =
                                         VecCacheClean(@)],
                            ref_index + 1))

\* A sync_caches that writes the root tables before the blocks are synced.
sync_caches_roots_first(q) ==
  LET a == SyncL2(q, L2Keys(q))
      b == Then(a, LAMBDA x : SyncRefblocks(x, 0))
      d == Then(b, LAMBDA x : write_pointer_table(
                                x, x.header.l1_table_offset,
                                Table(x.l1_table, x.header.l1_size), 0, "l1"))
      e == Then(d, LAMBDA x : write_pointer_table(
                                x, x.header.refcount_table_offset,
                                Table(x.ref_table, x.ref_len), 0, "reftable"))
      c == Then(e, LAMBDA x : sync_file(x, "sync_all"))
  IN Then(c, LAMBDA x : sync_file(x, "sync_data"))


\* A sync_caches that writes the blocks and leaves the root tables in the
\* file as they are.
sync_caches_without_roots(q) ==
  LET a == SyncL2(q, L2Keys(q))
      b == Then(a, LAMBDA x : SyncRefblocks(x, 0))
      c == Then(b, LAMBDA x : sync_file(x, "sync_all"))
  IN Then(c, LAMBDA x : sync_file(x, "sync_data"))

sync_caches(q) ==
  LET a == SyncL2(q, L2Keys(q))
      b == Then(a, LAMBDA x : SyncRefblocks(x, 0))
      c == Then(b, LAMBDA x : sync_file(x, "sync_all"))
      d == Then(c, LAMBDA x : write_pointer_table(
                                x, x.header.l1_table_offset,
                                Table(x.l1_table, x.header.l1_size), 0, "l1"))
      e == Then(d, LAMBDA x : write_pointer_table(
                                x, x.header.refcount_table_offset,
                                Table(x.ref_table, x.ref_len), 0, "reftable"))
  IN Then(e, LAMBDA x : sync_file(x, "sync_data"))

\* A flush that promotes the unreferenced clusters whatever sync_caches
\* returned.
flush_promoting_always(q) ==
  Let(sync_caches(q), LAMBDA s :
    [s EXCEPT !.avail_clusters = @ \o s.unref_clusters,
              !.unref_clusters = <<>>,
              !.log = Append(@, <<"promote", Len(s.unref_clusters)>>)])

\* A flush that promotes the unreferenced clusters and keeps them queued.
flush_keeping_unref(q) ==
  Then(sync_caches(q), LAMBDA s :
    [s EXCEPT !.avail_clusters = @ \o s.unref_clusters,
              !.log = Append(@, <<"promote", Len(s.unref_clusters)>>)])

flush(q) ==
  Then(sync_caches(q), LAMBDA s :
    [s EXCEPT !.avail_clusters = @ \o s.unref_clusters,
              !.unref_clusters = <<>>,
              !.log = Append(@, <<"promote", Len(s.unref_clusters)>>)])

\* A drop that keeps the result of sync_caches.
drop_surfacing(q) == sync_caches(q)

\* Drop: the caches are synced and the result is thrown away.
drop(q) == [sync_caches(q) EXCEPT !.err = OK]

(***************************************************************************)
(* QcowHeader (qcow.rs:69-233).                                            *)
(***************************************************************************)
\* The fields in the order they are written and read, with their widths in
\* bytes.
HeaderFields ==
  << <<"magic", 4>>, <<"version", 4>>, <<"backing_file_offset", 8>>,
     <<"backing_file_size", 4>>, <<"cluster_bits", 4>>, <<"size", 8>>,
     <<"crypt_method", 4>>, <<"l1_size", 4>>, <<"l1_table_offset", 8>>,
     <<"refcount_table_offset", 8>>, <<"refcount_table_clusters", 4>>,
     <<"nb_snapshots", 4>>, <<"snapshots_offset", 8>>,
     <<"incompatible_features", 8>>, <<"compatible_features", 8>>,
     <<"autoclear_features", 8>>, <<"refcount_order", 4>>, <<"header_size", 4>> >>

RECURSIVE FieldOffset(_)
FieldOffset(n) == IF n = 1 THEN 0 ELSE FieldOffset(n - 1) + HeaderFields[n - 1][2]

FieldNames == {HeaderFields[n][1] : n \in 1..Len(HeaderFields)}
FieldNo(name) == CHOOSE n \in 1..Len(HeaderFields) : HeaderFields[n][1] = name

max_refcount_clusters(refcount_order, cluster_size, num_clusters) ==
  LET refcount_bytes == Pow2(refcount_order) \div 8
      for_data == div_round_up_u32(num_clusters * refcount_bytes, cluster_size)
      for_refcounts == div_round_up_u32(for_data * refcount_bytes, cluster_size)
  IN for_data + for_refcounts

create_for_size(size) ==
  LET cluster_bits == DEFAULT_CLUSTER_BITS
      cluster_size == Pow2(cluster_bits)
      l2_size == cluster_size \div 8
      num_clusters == div_round_up_u64(size, cluster_size)
      num_l2_clusters == div_round_up_u32(num_clusters, l2_size)
      l1_clusters == div_round_up_u32(num_l2_clusters, cluster_size)
  IN [magic |-> QCOW_MAGIC,
      version |-> 3,
      backing_file_offset |-> 0,
      backing_file_size |-> 0,
      cluster_bits |-> DEFAULT_CLUSTER_BITS,
      size |-> size,
      crypt_method |-> 0,
      l1_size |-> num_l2_clusters,
      l1_table_offset |-> cluster_size,
      refcount_table_offset |-> cluster_size * (l1_clusters + 1),
      refcount_table_clusters |->
        div_round_up_u32(
          max_refcount_clusters(DEFAULT_REFCOUNT_ORDER, cluster_size, num_clusters) * 8,
          cluster_size),
      nb_snapshots |-> 0,
      snapshots_offset |-> 0,
      incompatible_features |-> 0,
      compatible_features |-> 0,
      autoclear_features |-> 0,
      refcount_order |-> DEFAULT_REFCOUNT_ORDER,
      header_size |-> V3_BARE_HEADER_SIZE]

\* The bytes write_to stores for the fields, by offset from the position the
\* file is at.
HeaderBytes(h) ==
  LET byte(n, k) == IF HeaderFields[n][2] = 4 THEN U32Byte(h[HeaderFields[n][1]], k)
                    ELSE U64Byte(h[HeaderFields[n][1]], 0, k)
      cells == {<<n, k>> \in (1..Len(HeaderFields)) \X (0..7) :
                  k < HeaderFields[n][2] /\ byte(n, k) # 0}
      at(o) == CHOOSE c \in cells : FieldOffset(c[1]) + c[2] = o
  IN [o \in {FieldOffset(c[1]) + c[2] : c \in cells} |-> byte(at(o)[1], at(o)[2])]

\* A writer that stores the default cluster_bits whatever the header says.
write_to_default_bits(h, f) ==
  [file_len |-> Max(Max(f.file_len, V3_BARE_HEADER_SIZE),
                    h.refcount_table_offset
                      + h.refcount_table_clusters * Pow2(DEFAULT_CLUSTER_BITS) - 1),
   file_data |-> HeaderBytes([h EXCEPT !.cluster_bits = DEFAULT_CLUSTER_BITS])]

\* QcowHeader::write_to on a file record f = [file_len, file_data] that is
\* positioned at 0.
write_to(h, f) ==
  LET cluster_size == Pow2(h.cluster_bits)
      refcount_blocks_size == h.refcount_table_clusters * cluster_size
      last == h.refcount_table_offset + refcount_blocks_size - 2
      fields == HeaderBytes(h)
      data == [o \in (DOMAIN f.file_data \ ((0..(V3_BARE_HEADER_SIZE - 1)) \cup {last}))
                       \cup DOMAIN fields |->
                 IF o \in DOMAIN fields THEN fields[o] ELSE f.file_data[o]]
  IN [file_len |-> Max(Max(f.file_len, V3_BARE_HEADER_SIZE), last + 1),
      file_data |-> data]

\* QcowHeader::new: the header read from offset 0, err telling a bad one.
QcowHeaderNew(f) ==
  LET field(n) == IF HeaderFields[n][2] = 4
                  THEN DecodeU32(f.file_data, FieldOffset(n))
                  ELSE DecodeU64(f.file_data, FieldOffset(n), FALSE)
  IN Let([name \in FieldNames |-> field(FieldNo(name))], LAMBDA h :
       IF f.file_len < 4 THEN [err |-> "ReadingHeader", header |-> h]
       ELSE IF h.magic # QCOW_MAGIC THEN [err |-> "InvalidMagic", header |-> h]
       ELSE IF f.file_len < V3_BARE_HEADER_SIZE
       THEN [err |-> "ReadingHeader", header |-> h]
       ELSE [err |-> OK, header |-> h])

\* A check of the offsets that lets every offset pass.
offset_always_aligned(offset, cluster_bits) == TRUE

offset_is_cluster_boundary(offset, cluster_bits) == offset % Pow2(cluster_bits) = 0

(***************************************************************************)
(* QcowFile::from and QcowFile::new (qcow.rs:270-391).                     *)
(***************************************************************************)
\* The first check of QcowFile::from that refuses header h, OK when none does.
HeaderRefusal(h) ==
  IF h.version # 3 THEN "UnsupportedVersion"
  ELSE IF h.cluster_bits > MAX_CLUSTER_BITS THEN "InvalidClusterSize"
  ELSE IF Pow2(h.cluster_bits) < 8 THEN "InvalidClusterSize"
  ELSE IF h.backing_file_offset # 0 THEN "BackingFilesNotSupported"
  ELSE IF h.refcount_order # 4 THEN "UnsupportedRefcountOrder"
  ELSE IF h.refcount_table_clusters = 0 THEN "NoRefcountClusters"
  ELSE IF ~offset_is_cluster_boundary(h.backing_file_offset, h.cluster_bits)
          \/ ~offset_is_cluster_boundary(h.l1_table_offset, h.cluster_bits)
          \/ ~offset_is_cluster_boundary(h.refcount_table_offset, h.cluster_bits)
          \/ ~offset_is_cluster_boundary(h.snapshots_offset, h.cluster_bits)
  THEN "InvalidOffset"
  ELSE OK

\* The engine over file f with header h, its tables still to be read.
Opened(f, h) ==
  LET cluster_size == Pow2(h.cluster_bits)
  IN [file_len |-> f.file_len, file_data |-> f.file_data,
      stable_len |-> f.stable_len, stable_data |-> f.stable_data,
      cluster_size |-> cluster_size,
      header |-> h,
      l1_table |-> Empty,
      ref_table |-> Empty,
      ref_len |-> max_refcount_clusters(h.refcount_order, cluster_size,
                                        div_round_up_u64(h.size, cluster_size)),
      l2_entries |-> cluster_size \div 8,
      l2_cache |-> Empty,
      refblock_cache |-> Empty,
      current_offset |-> 0,
      refcount_block_entries |-> (cluster_size * 8) \div 16,
      unref_clusters |-> <<>>,
      avail_clusters |-> <<>>,
      err |-> OK, ret |-> 0, iofail |-> None, order |-> <<>>, log |-> <<>>,
      accept |-> None, refcap |-> REFBLOCK_CACHE_CAPACITY]

\* QcowFile::from on the file record f; the result's err is OK or the
\* refusal.  The entries of the L1 table are tested for COMPRESSED_FLAG as
\* read_pointer_table returned them, L1_TABLE_OFFSET_MASK applied.
from(f) ==
  Let(QcowHeaderNew(f), LAMBDA parsed :
    IF parsed.err # OK THEN [err |-> parsed.err]
    ELSE IF HeaderRefusal(parsed.header) # OK
    THEN [err |-> HeaderRefusal(parsed.header)]
    ELSE Let(read_pointer_table(Opened(f, parsed.header),
                                parsed.header.l1_table_offset,
                                parsed.header.l1_size, TRUE),
             LAMBDA l1 :
      IF Failed(l1) THEN [err |-> "ReadingHeader"]
      ELSE IF \E i \in 0..(parsed.header.l1_size - 1) :
                HasFlag(DecodeTop(l1.file_data,
                                  parsed.header.l1_table_offset + 8 * i, TRUE),
                        COMPRESSED_FLAG)
      THEN [err |-> "CompressedBlocksNotSupported"]
      ELSE Let(read_pointer_table(l1, parsed.header.refcount_table_offset,
                                  l1.ref_len, FALSE),
               LAMBDA rt :
        IF Failed(rt) THEN [err |-> "ReadingHeader"]
        ELSE [rt EXCEPT !.l1_table = l1.ret, !.ref_table = rt.ret, !.ret = 0,
                        !.log = <<>>])))

\* A loop that stops after the cluster of the header.
NewRefcounts_first_only(q, cluster_addr, end_cluster_addr) ==
  set_cluster_refcount(q, cluster_addr, 1, MaxDepth)

\* The loop of QcowFile::new over the clusters of the header, the L1 table
\* and the refcount table.
RECURSIVE NewRefcounts(_, _, _)
NewRefcounts(q, cluster_addr, end_cluster_addr) ==
  IF Failed(q) \/ cluster_addr >= end_cluster_addr THEN q
  ELSE NewRefcounts(set_cluster_refcount(q, cluster_addr, 1, MaxDepth),
                    cluster_addr + q.cluster_size, end_cluster_addr)

EmptyFile == [file_len |-> 0, file_data |-> Empty]

new(virtual_size_) ==
  Let(write_to(create_for_size(virtual_size_), EmptyFile), LAMBDA f :
    Then(from([file_len |-> f.file_len, file_data |-> f.file_data,
               stable_len |-> 0, stable_data |-> Empty]),
         LAMBDA q :
           [NewRefcounts(q, 0,
                         q.header.refcount_table_offset
                           + q.header.refcount_table_clusters * q.cluster_size)
              EXCEPT !.log = <<>>, !.ret = 0]))

(***************************************************************************)
(* The state: the fields of the engine, the backing file and its stable    *)
(* image, and what the caller has observed (ops: operations issued; last:  *)
(* the last operation with its arguments, result, file operations and the  *)
(* two queues as they were before it;                                      *)
(* pc: where the caller is, which like the callers in the tests seeks      *)
(* before every read and write;                                            *)
(* written: the virtual addresses a write was issued for; pend: the last   *)
(* complete write while only flushes and seeks have followed it; lineage:  *)
(* the size the image was created with, how far it is along new, flush,   *)
(* drop, from, and whether the handle of new has done nothing but seek,    *)
(* read and write; gens: the root tables and the file of the image as      *)
(* created and as each successful flush or drop left it).                  *)
(***************************************************************************)
VARIABLES file_len, file_data, stable_len, stable_data, header, l1_table,
          ref_table, l2_cache, refblock_cache, current_offset, unref_clusters,
          avail_clusters, ops, pc, last, written, pend, lineage, gens

vars == <<file_len, file_data, stable_len, stable_data, header, l1_table,
          ref_table, l2_cache, refblock_cache, current_offset, unref_clusters,
          avail_clusters, ops, pc, last, written, pend, lineage, gens>>

\* Inputs of the operations.
Sizes == {1048576, 536936448}
SeekPositions ==
  {<<"Start", 65535>>, <<"Start", 131072>>, <<"End", 0 - 2>>}
WriteBufs == {<<85, 86>>}
ReadLens == {2, 8}

RECURSIVE Perms(_)
Perms(S) ==
  IF S = {} THEN {<<>>}
  ELSE UNION {{<<x>> \o p : p \in Perms(S \ {x})} : x \in S}

Engine ==
  [Opened([file_len |-> file_len, file_data |-> file_data,
           stable_len |-> stable_len, stable_data |-> stable_data], header)
     EXCEPT !.l1_table = l1_table, !.ref_table = ref_table,
            !.l2_cache = l2_cache, !.refblock_cache = refblock_cache,
            !.current_offset = current_offset,
            !.unref_clusters = unref_clusters,
            !.avail_clusters = avail_clusters]

\* The engine at the start of an operation during which the file fails at
\* its operation number iofail and the hash map iterates in order.
Start(iofail, order) == [Engine EXCEPT !.iofail = iofail, !.order = order]

Orders == Perms(0..(header.l1_size - 1))

Commit(r) ==
  /\ file_len' = r.file_len
  /\ file_data' = r.file_data
  /\ stable_len' = r.stable_len
  /\ stable_data' = r.stable_data
  /\ header' = r.header
  /\ l1_table' = r.l1_table
  /\ ref_table' = r.ref_table
  /\ l2_cache' = r.l2_cache
  /\ refblock_cache' = r.refblock_cache
  /\ current_offset' = r.current_offset
  /\ unref_clusters' = r.unref_clusters
  /\ avail_clusters' = r.avail_clusters

\* The variables of the engine hold the fields of r.
Holds(r) ==
  /\ file_len = r.file_len
  /\ file_data = r.file_data
  /\ stable_len = r.stable_len
  /\ stable_data = r.stable_data
  /\ header = r.header
  /\ l1_table = r.l1_table
  /\ ref_table = r.ref_table
  /\ l2_cache = r.l2_cache
  /\ refblock_cache = r.refblock_cache
  /\ current_offset = r.current_offset
  /\ unref_clusters = r.unref_clusters
  /\ avail_clusters = r.avail_clusters

NoPend == [addr |-> None, data |-> <<>>, flushed |-> FALSE]
\* What the caller saw of an operation; after is the write a read directly
\* follows (flushes and the seek aside), NoPend for the other operations.
Observed(op, addr, arg, r, after) ==
  [op |-> op, addr |-> addr, arg |-> arg, err |-> r.err,
   ret |-> IF Failed(r) THEN 0 ELSE r.ret, log |-> r.log, after |-> after,
   queues |-> <<avail_clusters, unref_clusters>>]
Result(op, addr, arg, r) == Observed(op, addr, arg, r, NoPend)

\* The root tables and the file an engine would leave behind.
Generation(r) == [l1 |-> r.l1_table, rt |-> r.ref_table, data |-> r.file_data]

\* The image as created is taken to be on stable storage before the handle
\* is used.
Created(size) ==
  Let(new(size), LAMBDA q :
    [q EXCEPT !.stable_len = q.file_len, !.stable_data = q.file_data])

Init ==
  \E size \in Sizes : \E q \in {Created(size)} :
    /\ Holds(q)
    /\ ops = 0
    /\ pc = "idle"
    /\ last = [op |-> "new", addr |-> 0, arg |-> size, err |-> OK, ret |-> 0,
               log |-> <<>>, after |-> NoPend, queues |-> <<<<>>, <<>>>>]
    /\ written = {}
    /\ pend = NoPend
    /\ lineage = [size |-> size, stage |-> "new", plain |-> TRUE]
    /\ gens = {[l1 |-> Empty, rt |-> Empty, data |-> q.file_data]}

\* The offset a seek asks for (qcow.rs:787-807), None when the arithmetic
\* overflows or goes below zero.
SeekTarget(q, pos) ==
  LET base == IF pos[1] = "End" THEN virtual_size(q) ELSE q.current_offset
  IN IF pos[1] = "Start" THEN pos[2]
     ELSE IF pos[2] < 0
     THEN (IF base >= 0 - pos[2] THEN base + pos[2] ELSE None)
     ELSE base + pos[2]

Seek(pos) ==
  /\ pc = "idle"
  /\ ops < MaxOps
  /\ \E r \in {seek(Engine, SeekTarget(Engine, pos))} :
       /\ Commit(r)
       /\ pc' = IF Failed(r) THEN "idle" ELSE "seeked"
       /\ last' = Result("seek", current_offset, pos, r)
  /\ UNCHANGED <<ops, written, pend, lineage, gens>>

Write(buf, iofail, order) ==
  /\ pc = "seeked"
  /\ \E r \in {write(Start(iofail, order), buf)} :
       /\ Commit(r)
       /\ last' = Result("write", current_offset, buf, r)
       /\ pend' = IF ~Failed(r) /\ r.ret = Len(buf)
                  THEN [addr |-> current_offset, data |-> buf, flushed |-> FALSE]
                  ELSE NoPend
  /\ ops' = ops + 1
  /\ pc' = "idle"
  /\ written' = written \cup
                  (current_offset..
                     (current_offset
                        + limit_range_file(Engine, current_offset, Len(buf)) - 1))
  /\ lineage' = [lineage EXCEPT !.stage = "used"]
  /\ UNCHANGED gens

Read(len, iofail, order) ==
  /\ pc = "seeked"
  /\ \E r \in {read(Start(iofail, order), len)} :
       /\ Commit(r)
       /\ last' = Observed("read", current_offset, len, r,
                            IF pend.addr = current_offset /\ Len(pend.data) = len
                            THEN pend ELSE NoPend)
  /\ ops' = ops + 1
  /\ pc' = "idle"
  /\ pend' = NoPend
  /\ lineage' = [lineage EXCEPT !.stage = "used"]
  /\ UNCHANGED <<written, gens>>

Flush(iofail, order) ==
  /\ pc = "idle"
  /\ ops < MaxOps
  /\ \E r \in {flush(Start(iofail, order))} :
       /\ Commit(r)
       /\ pc' = IF Failed(r) THEN "failed" ELSE "idle"
       /\ last' = Result("flush", current_offset, 0, r)
       /\ pend' = IF Failed(r) \/ pend = NoPend THEN NoPend
                  ELSE [pend EXCEPT !.flushed = TRUE]
       /\ lineage' = [lineage EXCEPT !.stage =
                        IF ~Failed(r) /\ @ \in {"new", "flushed"} THEN "flushed"
                        ELSE "used",
                                     !.plain = FALSE]
       /\ gens' = IF Failed(r) THEN gens ELSE gens \cup {Generation(r)}
  /\ ops' = ops + 1
  /\ UNCHANGED written

\* first_zero_refcount, which the tests call on a handle.
FirstZeroRefcount ==
  /\ pc = "idle"
  /\ ops < MaxOps
  /\ \E r \in {first_zero_refcount(Start(None, <<>>))} :
       /\ Commit(r)
       /\ last' = Result("first_zero_refcount", current_offset, 0, r)
  /\ ops' = ops + 1
  /\ pc' = "idle"
  /\ pend' = NoPend
  /\ UNCHANGED <<written, lineage, gens>>

\* The handle goes out of scope: Drop syncs the caches, whatever the result.
Drop(order) ==
  /\ pc = "idle"
  /\ ops < MaxOps
  /\ \E r \in {drop(Start(None, order))} :
       /\ Commit(r)
       /\ last' = Result("drop", current_offset, 0, r)
       /\ gens' = gens \cup {Generation(r)}
  /\ pc' = "closed"
  /\ pend' = NoPend
  /\ lineage' = [lineage EXCEPT !.stage =
                   IF @ = "flushed" THEN "dropped" ELSE "used",
                                !.plain = FALSE]
  /\ UNCHANGED <<ops, written>>

\* QcowFile::from on the file a dropped handle left.
Open ==
  /\ pc = "closed"
  /\ \E r \in {from([file_len |-> file_len, file_data |-> file_data,
                      stable_len |-> stable_len, stable_data |-> stable_data])} :
       /\ IF Failed(r)
          THEN /\ pc' = "refused"
               /\ UNCHANGED <<file_len, file_data, stable_len, stable_data,
                              header, l1_table, ref_table, l2_cache,
                              refblock_cache, current_offset, unref_clusters,
                              avail_clusters>>
          ELSE /\ pc' = "idle"
               /\ Commit(r)
       /\ last' = [op |-> "from", addr |-> 0, arg |-> 0, err |-> r.err,
                   ret |-> 0, log |-> <<>>, after |-> NoPend,
                   queues |-> <<<<>>, <<>>>>]
       /\ lineage' = [lineage EXCEPT !.stage =
                        IF @ # "dropped" THEN "used"
                        ELSE IF Failed(r) THEN "refused" ELSE "reopened"]
  /\ ops' = ops + 1
  /\ UNCHANGED <<written, pend, gens>>

\* The steps of a behaviour in which the file fails in the ways of Faults
\* during a flush, and never during another operation.
NextWith(Faults) ==
  \/ \E pos \in SeekPositions : Seek(pos)
  \/ \E buf \in WriteBufs, order \in Orders : Write(buf, None, order)
  \/ \E len \in ReadLens, order \in Orders : Read(len, None, order)
  \/ \E k \in Faults, order \in Orders : Flush(k, order)
  \/ FirstZeroRefcount
  \/ \E order \in Orders : Drop(order)
  \/ Open

Next == NextWith({None})

Spec == Init /\ [][Next]_vars

\* The file operations of a flush before which the file can fail.
MaxFlushIo == 7
NextFlushFails == NextWith({None} \cup 0..(MaxFlushIo - 1))

SpecFlushFails == Init /\ [][NextFlushFails]_vars

(***************************************************************************)
(* The caller at the edges of the image: seeks to and past the end, seeks  *)
(* relative to the position, and reads and writes there.                   *)
(***************************************************************************)
\* An offset no image of Sizes reaches; 0 - Huge stands for the i64 that has
\* no negation.
FarOffset == 1073741824
EdgePositions ==
  {<<"Start", 65535>>, <<"End", 0 - 1>>, <<"End", 0>>, <<"End", 1>>,
   <<"Current", 0 - 1>>, <<"Current", FarOffset>>, <<"End", 0 - Huge>>}
EdgeBufs == {<<85, 86>>}
\* Reads and writes in one behaviour at the edges.
MaxEdgeOps == 4

NextEdge ==
  \/ \E pos \in EdgePositions : ops < MaxEdgeOps /\ Seek(pos)
  \/ \E buf \in EdgeBufs, order \in Orders : Write(buf, None, order)
  \/ \E len \in ReadLens, order \in Orders : Read(len, None, order)

SpecEdge == Init /\ [][NextEdge]_vars

(***************************************************************************)
(* Opening files that were not left by a handle: a header written by       *)
(* write_to, or, as tests::with_basic_file does, the bytes of a header in  *)
(* a file of zeros, the L1 table in either possibly carrying flag bits.    *)
(***************************************************************************)
\* One field of a header changed.
FieldChanges ==
  {<<"magic", QCOW_MAGIC + 256>>, <<"version", 2>>, <<"version", 4>>,
   <<"cluster_bits", 0>>, <<"cluster_bits", 2>>, <<"cluster_bits", 3>>,
   <<"cluster_bits", 4>>, <<"cluster_bits", 9>>, <<"cluster_bits", 31>>,
   <<"cluster_bits", 32>>,
   <<"backing_file_offset", 1>>, <<"backing_file_offset", 65536>>,
   <<"refcount_order", 2>>, <<"refcount_order", 64>>,
   <<"refcount_table_clusters", 0>>,
   <<"l1_table_offset", 66048>>, <<"refcount_table_offset", 131584>>,
   <<"snapshots_offset", 512>>, <<"snapshots_offset", 262144>>,
   <<"crypt_method", 1>>, <<"nb_snapshots", 1>>}

Headers(size) ==
  {create_for_size(size)}
    \cup {[create_for_size(size) EXCEPT ![c[1]] = c[2]] : c \in FieldChanges}

\* The length tests::with_basic_file gives its file, and a longer one.
BasicLens == {327680, 524288}
\* The top byte of the first L1 entry: nothing, the compressed flag, the
\* compressed flag and the used flag.
L1Tops == {0, COMPRESSED_FLAG, COMPRESSED_FLAG + CLUSTER_USED_FLAG}

\* write_to does its arithmetic within the model's integers.
Writable(h) == h.cluster_bits <= 27 /\ h.refcount_table_clusters > 0

\* The files: how they were made, the header they were given, their bytes.
Files(size) ==
  {[by |-> "with_basic_file", wrote |-> h,
    file_len |-> len,
    file_data |-> Put(HeaderBytes(h), h.l1_table_offset, top)] :
     h \in Headers(size), len \in BasicLens, top \in L1Tops}
  \cup
  {[by |-> "write_to", wrote |-> h,
    file_len |-> write_to(h, EmptyFile).file_len,
    file_data |-> write_to(h, EmptyFile).file_data] :
     h \in {x \in Headers(size) : Writable(x)}}

\* The engine variables are those of a handle that is gone.
InitOpen ==
  \E size \in Sizes : \E q \in {Created(size)} : \E f \in Files(size) :
    /\ Holds([q EXCEPT !.file_len = f.file_len, !.file_data = f.file_data,
                       !.stable_len = f.file_len, !.stable_data = f.file_data])
    /\ ops = 0
    /\ pc = "closed"
    /\ last = [op |-> f.by, addr |-> 0, arg |-> f.wrote, err |-> OK, ret |-> 0,
               log |-> <<>>, after |-> NoPend, queues |-> <<<<>>, <<>>>>]
    /\ written = {}
    /\ pend = NoPend
    /\ lineage = [size |-> size, stage |-> "closed", plain |-> FALSE,
                  by |-> f.by, wrote |-> f.wrote]
    /\ gens = {}

\* Operations after the opening in one behaviour.
MaxOpenOps == 3

NextOpen ==
  \/ Open
  \/ \E pos \in SeekPositions : ops < MaxOpenOps /\ Seek(pos)
  \/ \E buf \in WriteBufs, order \in Orders : Write(buf, None, order)
  \/ \E len \in ReadLens, order \in Orders : Read(len, None, order)

SpecOpen == InitOpen /\ [][NextOpen]_vars

(***************************************************************************)
(* The two private operations that rotate blocks, applied on their own to  *)
(* the engine a handle has reached; the caller does not go on from there.  *)
(***************************************************************************)
\* The tables and caches as an operation finds them.
Before ==
  [l1_table |-> l1_table, ref_table |-> ref_table, l2_cache |-> l2_cache,
   refblock_cache |-> refblock_cache, file_len |-> file_len]

FileOffsetWrite(pos, order) ==
  /\ pc = "idle"
  /\ \E address \in {SeekTarget(Engine, pos)} :
     \E r \in {file_offset_write(Start(None, order), address)} :
       /\ Commit(r)
       /\ last' = [Result("file_offset_write", address, Before, r)
                     EXCEPT !.ret = r.ret]
  /\ pc' = "probed"
  /\ UNCHANGED <<ops, written, pend, lineage, gens>>

\* The clusters set_cluster_refcount is applied to: the first of the file
\* and the last.
ProbedClusters == {0, file_len - Engine.cluster_size}

SetClusterRefcount(address, refcount) ==
  /\ pc = "idle"
  /\ \E r \in {set_cluster_refcount(Start(None, <<>>), address, refcount,
                                     MaxDepth)} :
       /\ Commit(r)
       /\ last' = [Result("set_cluster_refcount", address, Before, r)
                     EXCEPT !.ret = refcount]
  /\ pc' = "probed"
  /\ UNCHANGED <<ops, written, pend, lineage, gens>>

\* Operations before the private operation is applied.
MaxProbeOps == 3

NextProbe ==
  \/ \E pos \in SeekPositions : ops < MaxProbeOps /\ Seek(pos)
  \/ \E buf \in WriteBufs, order \in Orders : Write(buf, None, order)
  \/ \E len \in ReadLens, order \in Orders : Read(len, None, order)
  \/ \E order \in Orders : ops < MaxProbeOps /\ Flush(None, order)
  \/ \E order \in Orders : ops < MaxProbeOps /\ Drop(order)
  \/ Open
  \/ \E pos \in SeekPositions, order \in Orders : FileOffsetWrite(pos, order)
  \/ \E address \in ProbedClusters, refcount \in {0, 1} :
       SetClusterRefcount(address, refcount)

SpecProbe == Init /\ [][NextProbe]_vars

(***************************************************************************)
(* The allocator and the refcount manager applied on their own to engines  *)
(* opened from files: a file write_to has just made is what QcowFile::new  *)
(* hands to from before it sets its first refcount.                        *)
(***************************************************************************)
GetNewCluster ==
  /\ pc = "idle"
  /\ \E r \in {get_new_cluster(Start(None, <<>>))} :
       /\ Commit(r)
       /\ last' = [Result("get_new_cluster", 0, Before, r) EXCEPT !.ret = r.ret]
  /\ pc' = "probed"
  /\ UNCHANGED <<ops, written, pend, lineage, gens>>

\* The clusters whose refcount is set: the first of the file, the last, the
\* first past the entries a new block is given, and, where the model's
\* integers hold its address, the first of the second refcount block.
CountedClusters ==
  IF pc # "idle" THEN {}
  ELSE {0, ((file_len - 1) \div Engine.cluster_size) * Engine.cluster_size,
        Engine.l2_entries * Engine.cluster_size}
         \cup (IF header.cluster_bits < DEFAULT_CLUSTER_BITS
               THEN {Engine.refcount_block_entries * Engine.cluster_size}
               ELSE {})

\* Operations before a private operation is applied.
MaxCountOps == 3

NextCount ==
  \/ Open
  \/ \E pos \in SeekPositions : ops < MaxCountOps /\ Seek(pos)
  \/ \E buf \in WriteBufs, order \in Orders : Write(buf, None, order)
  \/ \E len \in ReadLens, order \in Orders : Read(len, None, order)
  \/ \E order \in Orders : ops < MaxCountOps /\ Flush(None, order)
  \/ GetNewCluster
  \/ \E address \in CountedClusters, refcount \in {0, 1} :
       SetClusterRefcount(address, refcount)

SpecCount == InitOpen /\ [][NextCount]_vars

(***************************************************************************)
(* The handle dropped while the file fails: the sync of Drop ends at any   *)
(* of its file operations.                                                 *)
(***************************************************************************)
\* The file operations of a drop before which the file can fail.
MaxDropIo == 7

\* Drop for QcowFile with the file failing at operation number iofail.
DropFails(iofail, order) ==
  /\ pc = "idle"
  /\ ops < MaxOps
  /\ \E r \in {drop(Start(iofail, order))} :
       /\ Commit(r)
       /\ last' = Result("drop", current_offset,
                         [iofail |-> iofail, order |-> order], r)
       /\ gens' = gens \cup {Generation(r)}
  /\ pc' = "closed"
  /\ pend' = NoPend
  /\ lineage' = [lineage EXCEPT !.stage = "used", !.plain = FALSE]
  /\ UNCHANGED <<ops, written>>

\* Reads, writes and flushes before the drop.
MaxDropOps == 3

NextDrop ==
  \/ \E pos \in SeekPositions : ops < MaxDropOps /\ Seek(pos)
  \/ \E buf \in WriteBufs, order \in Orders : Write(buf, None, order)
  \/ \E len \in ReadLens, order \in Orders : Read(len, None, order)
  \/ \E order \in Orders : ops < MaxDropOps /\ Flush(None, order)
  \/ \E k \in {None} \cup 0..(MaxDropIo - 1), order \in Orders : DropFails(k, order)

SpecDrop == Init /\ [][NextDrop]_vars

(***************************************************************************)
(* The backing file taking fewer bytes than a write hands it: file.write   *)
(* returns Ok(n) with n below the length of the span.                      *)
(***************************************************************************)
\* The most bytes the backing file accepts in one write when it is short.
MaxAccept == 1
\* Reads and writes in one behaviour.
MaxShortOps == 3

\* Write::write for QcowFile with the backing file accepting at most accept
\* bytes in each of its writes.
WriteShort(buf, accept, order) ==
  /\ pc = "seeked"
  /\ \E r \in {write([Start(None, order) EXCEPT !.accept = accept], buf)} :
       /\ Commit(r)
       /\ last' = Result("write", current_offset,
                         [buf |-> buf, accept |-> accept], r)
  /\ ops' = ops + 1
  /\ pc' = "idle"
  /\ pend' = NoPend
  /\ written' = written
  /\ lineage' = [lineage EXCEPT !.stage = "used"]
  /\ UNCHANGED gens

NextShort ==
  \/ \E pos \in SeekPositions : ops < MaxShortOps /\ Seek(pos)
  \/ \E buf \in WriteBufs, accept \in 0..MaxAccept, order \in Orders :
       WriteShort(buf, accept, order)
  \/ \E len \in ReadLens, order \in Orders : Read(len, None, order)

SpecShort == Init /\ [][NextShort]_vars

(***************************************************************************)
(* The L2 cache at its capacity: an image with three L2 tables, writes     *)
(* during which the file fails, and check_l2_evict applied on its own, for *)
(* the capacities the hash map may report, to an entry the map holds.      *)
(***************************************************************************)
\* 1 GiB + 64 KiB: the L1 table has three entries.
EvictSize == 1073807360
\* An address under each entry of the L1 table.
EvictPositions ==
  {<<"Start", 65535>>, <<"Start", 536870912>>, <<"Start", 1073741824>>}
\* The file operations of a write before which the file can fail.
MaxWriteIo == 3
\* Reads and writes in one behaviour.
MaxEvictOps == 3
\* The capacities check_l2_evict is applied with.
MaxCapacity == 3

InitEvict ==
  \E q \in {Created(EvictSize)} :
    /\ Holds(q)
    /\ ops = 0
    /\ pc = "idle"
    /\ last = [op |-> "new", addr |-> 0, arg |-> EvictSize, err |-> OK, ret |-> 0,
               log |-> <<>>, after |-> NoPend, queues |-> <<<<>>, <<>>>>]
    /\ written = {}
    /\ pend = NoPend
    /\ lineage = [size |-> EvictSize, stage |-> "new", plain |-> TRUE]
    /\ gens = {[l1 |-> Empty, rt |-> Empty, data |-> q.file_data]}

CheckL2Evict(except, capacity, order) ==
  /\ pc = "idle"
  /\ except \in DOMAIN l2_cache
  /\ \E r \in {check_l2_evict_with(Start(None, order), except, capacity)} :
       /\ Commit(r)
       /\ last' = [Result("check_l2_evict", except, Before, r)
                     EXCEPT !.ret = capacity]
  /\ pc' = "probed"
  /\ UNCHANGED <<ops, written, pend, lineage, gens>>

NextEvict ==
  \/ \E pos \in EvictPositions : ops < MaxEvictOps /\ Seek(pos)
  \/ \E buf \in WriteBufs, k \in {None} \cup 0..(MaxWriteIo - 1), order \in Orders :
       Write(buf, k, order)
  \/ \E len \in ReadLens, order \in Orders : Read(len, None, order)
  \/ \E except \in 0..(header.l1_size - 1), capacity \in 1..MaxCapacity,
        order \in Orders : CheckL2Evict(except, capacity, order)

SpecEvict == InitEvict /\ [][NextEvict]_vars

(***************************************************************************)
(* Reads on an image with three L2 tables: a read loads a table, evicts    *)
(* another, and the file can fail at any of its operations.                *)
(***************************************************************************)
\* The file operations of a read before which the file can fail.
MaxReadIo == 3
\* Reads and writes in one behaviour.
MaxReadOps == 4

NextRead ==
  \/ \E pos \in EvictPositions : ops < MaxReadOps /\ Seek(pos)
  \/ \E buf \in WriteBufs, order \in Orders : Write(buf, None, order)
  \/ \E len \in ReadLens, k \in {None} \cup 0..(MaxReadIo - 1), order \in Orders :
       Read(len, k, order)

SpecRead == InitEvict /\ [][NextRead]_vars

(***************************************************************************)
(* The chain of set_cluster_refcount on an image of 512-byte clusters,     *)
(* where a refcount block counts 256 clusters and the file spans several   *)
(* blocks, with a refcount-block cache of one or two blocks.               *)
(***************************************************************************)
\* The cluster_bits of the image.
ChainClusterBits == 9
\* Calls and flushes in one behaviour.
MaxChainOps == 4
\* The capacities of the refcount-block cache.
MaxRefCapacity == 2
\* The refcount blocks whose first cluster is counted.
MaxChainBlock == 2

ChainSize == 1048576
ChainHeader == [create_for_size(ChainSize) EXCEPT !.cluster_bits = ChainClusterBits]

\* The refcount blocks, past the one that counts the refcount table, whose
\* first cluster the end of the file is brought up to.
MaxChainEnd == 1

\* The lengths of the file: as write_to left it, or grown with clusters of
\* zeros up to one or two clusters before the first cluster of a later
\* refcount block, so that the clusters a chain appends fall on both sides.
ChainFileEnds ==
  {0} \cup {(k + 1) * ((2 ^ ChainClusterBits * 8) \div 16) * 2 ^ ChainClusterBits
                - j * 2 ^ ChainClusterBits : k \in 1..MaxChainEnd, j \in 1..2}

\* The file write_to made of the header, not yet opened.
InitChain ==
  \E q \in {Created(ChainSize)} : \E f \in {write_to(ChainHeader, EmptyFile)} :
   \E end \in ChainFileEnds :
    /\ Holds([q EXCEPT !.file_len = Max(f.file_len, end), !.file_data = f.file_data,
                       !.stable_len = Max(f.file_len, end), !.stable_data = f.file_data])
    /\ ops = 0
    /\ pc = "closed"
    /\ last = [op |-> "write_to", addr |-> 0, arg |-> ChainHeader, err |-> OK,
               ret |-> 0, log |-> <<>>, after |-> NoPend,
               queues |-> <<<<>>, <<>>>>]
    /\ written = {}
    /\ pend = NoPend
    /\ lineage = [size |-> ChainSize, stage |-> "closed", plain |-> FALSE,
                  by |-> "write_to", wrote |-> ChainHeader]
    /\ gens = {}

\* The addresses counted: the first cluster of each block and the last
\* cluster of the file.
ChainAddrs ==
  IF pc # "idle" THEN {}
  ELSE {k * Engine.refcount_block_entries * Engine.cluster_size :
          k \in 0..MaxChainBlock}
       \cup {((file_len - 1) \div Engine.cluster_size) * Engine.cluster_size}

\* A call that is given one level of nesting only.
SetRefcountAt_shallow(address, refcount, capacity) ==
  /\ pc = "idle"
  /\ ops < MaxChainOps
  /\ \E r \in {set_cluster_refcount([Start(None, <<>>) EXCEPT !.refcap = capacity],
                                     address, refcount, 1)} :
       /\ Commit(r)
       /\ last' = [Result("set_cluster_refcount", address, Before, r)
                     EXCEPT !.ret = capacity]
       /\ pc' = IF Failed(r) THEN "probed" ELSE "idle"
  /\ ops' = ops + 1
  /\ UNCHANGED <<written, pend, lineage, gens>>

\* set_cluster_refcount on an engine whose refcount-block cache has the
\* given capacity; the handle stays in use.
SetRefcountAt(address, refcount, capacity) ==
  /\ pc = "idle"
  /\ ops < MaxChainOps
  /\ \E r \in {set_cluster_refcount([Start(None, <<>>) EXCEPT !.refcap = capacity],
                                     address, refcount, MaxDepth)} :
       /\ Commit(r)
       /\ last' = [Result("set_cluster_refcount", address, Before, r)
                     EXCEPT !.ret = capacity]
       /\ pc' = IF Failed(r) THEN "probed" ELSE "idle"
  /\ ops' = ops + 1
  /\ UNCHANGED <<written, pend, lineage, gens>>

NextChain ==
  \/ Open
  \/ \E address \in ChainAddrs, refcount \in {0, 1},
        capacity \in 1..MaxRefCapacity :
       SetRefcountAt(address, refcount, capacity)
  \/ \E order \in Orders : ops < MaxChainOps /\ Flush(None, order)

SpecChain == InitChain /\ [][NextChain]_vars

(***************************************************************************)
(* What the claims speak of.                                               *)
(***************************************************************************)
\* The host cluster the image maps virtual cluster vc to, 0 when none: the
\* entry of the cached L2 table, or of the table in the file when the table
\* is not cached.
HostCluster(vc) ==
  LET q == Engine
      l1_index == vc \div q.l2_entries
      l2_index == vc % q.l2_entries
      l2_addr == Get(l1_table, l1_index)
  IN IF l1_index \in DOMAIN l2_cache THEN Get(l2_cache[l1_index].vec, l2_index)
     ELSE IF l2_addr = 0 THEN 0
     ELSE DecodeU64(file_data, l2_addr + 8 * l2_index, TRUE)

\* The virtual clusters of the n bytes at virtual address addr.
ClustersOf(addr, n) ==
  IF n = 0 THEN {}
  ELSE (addr \div Engine.cluster_size)..((addr + n - 1) \div Engine.cluster_size)

\* C1: a read of len(B) bytes at A that directly follows seek(A); write(B),
\* with or without a flush in between, returns exactly B; and after a write
\* every virtual cluster it touched has a host cluster of its own.
C1_WriteThenReadReturnsWritten ==
  /\ (last.op = "read" /\ last.err = OK /\ last.after # NoPend)
       => last.ret = last.after.data
  /\ (last.op = "write" /\ last.err = OK)
       => \A c, d \in ClustersOf(last.addr, last.ret) :
            /\ HostCluster(c) # 0
            /\ c # d => HostCluster(c) # HostCluster(d)

\* A read has returned the bytes of a flushed write that began in one
\* cluster and ended in the next.
C1_Witness ==
  /\ last.op = "read" /\ last.err = OK
  /\ last.after.flushed
  /\ last.addr = 65535 /\ last.ret = <<85, 86>>
  /\ HostCluster(0) # 0 /\ HostCluster(1) # 0

\* C2: every byte a read returns for a virtual address no write was issued
\* for is zero.
C2_UnwrittenReadsZero ==
  (last.op = "read" /\ last.err = OK)
    => \A i \in 1..Len(last.ret) :
         (last.addr + i - 1) \notin written => last.ret[i] = 0

Range(m) == {m[i] : i \in DOMAIN m}
SeqRange(s) == {s[i] : i \in 1..Len(s)}

\* The non-zero entries of the table of count 64-bit words at off in data,
\* as read_pointer_table reads them.
DiskTable(data, off, count, masked) ==
  LET touched == {(o - off) \div 8 :
                    o \in {x \in DOMAIN data : x >= off /\ x < off + 8 * count}}
      val(i) == DecodeU64(data, off + 8 * i, masked)
  IN [i \in {j \in touched : val(j) # 0} |-> val(i)]

\* The non-zero entries of the block of count 16-bit counts at off in data.
DiskCounts(data, off, count) ==
  LET touched == {(o - off) \div 2 :
                    o \in {x \in DOMAIN data : x >= off /\ x < off + 2 * count}}
  IN [i \in touched |-> DecodeU16(data, off + 2 * i)]

\* The L1 table and the refcount table that data holds.
DiskL1(data) == DiskTable(data, header.l1_table_offset, header.l1_size, FALSE)
DiskRefTable(data) ==
  DiskTable(data, header.refcount_table_offset, Engine.ref_len, FALSE)

\* The bytes of the cluster at addr in data.
ClusterBytes(data, addr) ==
  [o \in {x \in DOMAIN data : x >= addr /\ x < addr + Engine.cluster_size} |->
     data[o]]

\* The clusters of the file whose bytes have not all reached stable storage.
UnsyncedClusters ==
  {o \div Engine.cluster_size :
     o \in {x \in DOMAIN file_data \cup DOMAIN stable_data :
              Get(file_data, x) # Get(stable_data, x)}}

\* What a crash leaves when of the unsynced clusters exactly those of P had
\* reached stable storage.
CrashImage(P) ==
  LET byte(x) == IF (x \div Engine.cluster_size) \in P THEN Get(file_data, x)
                 ELSE Get(stable_data, x)
  IN [o \in {x \in DOMAIN file_data \cup DOMAIN stable_data : byte(x) # 0} |->
        byte(o)]

\* The image holds the root tables of generation g and, intact, every block
\* they name.
HoldsGeneration(image, g) ==
  /\ DiskL1(image) = g.l1
  /\ DiskRefTable(image) = g.rt
  /\ \A a \in Range(g.l1) \cup Range(g.rt) :
       ClusterBytes(image, a) = ClusterBytes(g.data, a)

\* C3: whatever part of the unsynced writes a crash lets through, at any
\* point between operations and at any file operation inside a flush, the
\* image left holds the root tables of one generation (the image as
\* created, a completed flush or drop, or the tables being flushed) together
\* with the intact blocks they name.
C3_CrashLeavesOneGeneration ==
  \A P \in SUBSET UnsyncedClusters :
    \E g \in gens \cup {[l1 |-> l1_table, rt |-> ref_table, data |-> file_data]} :
      HoldsGeneration(CrashImage(P), g)

\* The positions in the log of the last operation of the events named ev.
Pos(ev) == {j \in 1..Len(last.log) : last.log[j][1] = ev}

\* C4: a flush that succeeds performs, in this order and nothing else: one
\* write for each dirty L2 table to the cluster the L1 table names, one write
\* for each dirty refcount block to the cluster the refcount table names,
\* sync_all, the L1 table to its offset, the refcount table to its offset,
\* sync_data, and then the move of unref_clusters to the end of
\* avail_clusters.
C4_FlushOrder ==
  [][(last'.op = "flush" /\ last'.err = OK) =>
       LET log == last'.log
           dirtyL2 == {i \in DOMAIN l2_cache : l2_cache[i].dirty}
           dirtyRef == {i \in DOMAIN refblock_cache : refblock_cache[i].dirty}
           n2 == Cardinality(dirtyL2)
           nr == Cardinality(dirtyRef)
       IN /\ Len(log) = n2 + nr + 5
          /\ {log[j] : j \in 1..n2} = {<<"l2", l1_table[i]>> : i \in dirtyL2}
          /\ {log[j] : j \in (n2 + 1)..(n2 + nr)}
               = {<<"refblock", ref_table[i]>> : i \in dirtyRef}
          /\ log[n2 + nr + 1] = <<"sync_all", 0>>
          /\ log[n2 + nr + 2] = <<"l1", header.l1_table_offset>>
          /\ log[n2 + nr + 3] = <<"reftable", header.refcount_table_offset>>
          /\ log[n2 + nr + 4] = <<"sync_data", 0>>
          /\ log[n2 + nr + 5] = <<"promote", Len(unref_clusters)>>
          /\ avail_clusters' = avail_clusters \o unref_clusters
          /\ unref_clusters' = <<>>
          /\ \A i \in DOMAIN l2_cache' : ~l2_cache'[i].dirty
          /\ \A i \in DOMAIN refblock_cache' : ~refblock_cache'[i].dirty]_vars

\* A flush has succeeded that wrote an L2 table and a refcount block and
\* promoted clusters.
C4_Witness ==
  /\ last.op = "flush" /\ last.err = OK
  /\ Pos("l2") # {} /\ Pos("refblock") # {}
  /\ last.log[Len(last.log)][2] > 0

\* C5: after a flush that succeeds, stable storage holds the root tables of
\* the engine; every cluster they name lies inside the stable file and
\* holds, for a block that is cached, exactly the cached block, which is
\* clean; and every block the flush wrote was written before sync_all, which
\* came before the writes of the root tables.
C5_RootsNameDurableBlocks ==
  (last.op = "flush" /\ last.err = OK) =>
    /\ DiskL1(stable_data) = l1_table
    /\ DiskRefTable(stable_data) = ref_table
    /\ \A i \in DOMAIN l1_table :
         /\ l1_table[i] + Engine.cluster_size <= stable_len
         /\ i \in DOMAIN l2_cache =>
              /\ ~l2_cache[i].dirty
              /\ DiskTable(stable_data, l1_table[i], Engine.l2_entries, TRUE)
                   = l2_cache[i].vec
    /\ \A t \in DOMAIN ref_table :
         /\ ref_table[t] + Engine.cluster_size <= stable_len
         /\ t \in DOMAIN refblock_cache =>
              /\ ~refblock_cache[t].dirty
              /\ DiskCounts(stable_data, ref_table[t], refblock_cache[t].len)
                   = refblock_cache[t].vec
    /\ Pos("sync_all") # {}
    /\ \A b \in Pos("l2") \cup Pos("refblock"), s \in Pos("sync_all"),
          r \in Pos("l1") \cup Pos("reftable") : b < s /\ s < r

\* A flush has succeeded with both root tables non-empty and an L2 table
\* cached.
C5_Witness ==
  /\ last.op = "flush" /\ last.err = OK
  /\ DOMAIN l1_table # {} /\ DOMAIN ref_table # {}
  /\ DOMAIN l1_table \cap DOMAIN l2_cache # {}
  /\ Pos("l2") # {}

\* The clusters the root tables held by data name.
RootsName(data) == Range(DiskL1(data)) \cup Range(DiskRefTable(data))

\* C6: an operation puts a cluster into avail_clusters only if it is a
\* flush that succeeds, the cluster comes from unref_clusters, and the flush
\* ended with the writes of both root tables, sync_data and then the
\* promotion; a flush that fails and a drop leave both queues as they were;
\* and no cluster of avail_clusters is named by the root tables in the file
\* or on stable storage.
C6_PromotionOnlyAfterRoots ==
  LET gained == SeqRange(avail_clusters) \ SeqRange(last.queues[1])
      log == last.log
      n == Len(log)
  IN /\ gained # {} =>
          /\ last.op = "flush" /\ last.err = OK
          /\ gained \subseteq SeqRange(last.queues[2])
          /\ n >= 4
          /\ log[n - 3][1] = "l1" /\ log[n - 2][1] = "reftable"
          /\ log[n - 1][1] = "sync_data" /\ log[n][1] = "promote"
     /\ ((last.op = "flush" /\ last.err # OK) \/ last.op = "drop")
          => /\ avail_clusters = last.queues[1]
             /\ unref_clusters = last.queues[2]
     /\ \A a \in SeqRange(avail_clusters) :
          a \notin (RootsName(file_data) \cup RootsName(stable_data))

\* A flush has failed after it wrote the L1 table, with clusters waiting in
\* unref_clusters.
C6_Witness ==
  /\ last.op = "flush" /\ last.err # OK
  /\ Pos("l1") # {}
  /\ unref_clusters # <<>>

\* get_cluster_refcount of the cluster at addr, None when it fails.
Refcount(addr) ==
  LET r == get_cluster_refcount(Engine, addr)
  IN IF Failed(r) THEN None ELSE r.ret

\* The L2 table of index i as the engine sees it.
L2TableOf(i) ==
  IF i \in DOMAIN l2_cache THEN l2_cache[i].vec
  ELSE DiskTable(file_data, l1_table[i], Engine.l2_entries, TRUE)

\* The host clusters the image references: those of the header, the L1
\* table and the refcount table, the L2 tables, the refcount blocks and the
\* data clusters.
Referenced ==
  LET head_end == header.refcount_table_offset
                    + header.refcount_table_clusters * Engine.cluster_size
  IN {c * Engine.cluster_size :
        c \in 0..(div_round_up_u64(head_end, Engine.cluster_size) - 1)}
       \cup Range(l1_table) \cup Range(ref_table)
       \cup UNION {Range(L2TableOf(i)) : i \in DOMAIN l1_table}

\* C7: after a flush that succeeds every referenced host cluster has a
\* refcount of at least one.
C7_ReferencedCounted ==
  (last.op = "flush" /\ last.err = OK) => \A c \in Referenced : Refcount(c) >= 1

\* A flush has succeeded on an image with data clusters whose L2 table and
\* refcount block have both moved to new clusters.
C7_Witness ==
  /\ last.op = "flush" /\ last.err = OK
  /\ \E i \in DOMAIN l1_table : L2TableOf(i) # Empty
  /\ Len(avail_clusters) >= 2

\* C8: after a flush that succeeds every cluster of avail_clusters has
\* refcount 0.
C8_AvailableUncounted ==
  (last.op = "flush" /\ last.err = OK)
    => \A a \in SeqRange(avail_clusters) : Refcount(a) = 0

\* A flush has succeeded and left clusters in avail_clusters.
C8_Witness ==
  /\ last.op = "flush" /\ last.err = OK
  /\ avail_clusters # <<>>

\* C9: the image of new(S), flushed and dropped, is opened by from; the
\* engine opened reports virtual_size S, and first_zero_refcount on it
\* returns none.
C9_FlushedImageReopens ==
  /\ lineage.stage # "refused"
  /\ lineage.stage = "reopened" =>
       /\ virtual_size(Engine) = lineage.size
       /\ (last.op = "first_zero_refcount" /\ last.err = OK) => last.ret = None

\* C10: on the handle new returned, after seeks, writes and reads only,
\* first_zero_refcount returns none.
C10_NoZeroRefcount ==
  (lineage.plain /\ last.op = "first_zero_refcount" /\ last.err = OK)
    => last.ret = None

(***************************************************************************)
(* Reads, writes and seeks at the edges of the image.                      *)
(***************************************************************************)
\* C11: a write of a non-empty buffer with the position at virtual_size - 1
\* succeeds and returns 1; with the position at virtual_size it fails with
\* EINVAL.
C11_WriteAtTheEnd ==
  (last.op = "write" /\ Len(last.arg) > 0) =>
    /\ last.addr = virtual_size(Engine) - 1 => (last.err = OK /\ last.ret = 1)
    /\ last.addr = virtual_size(Engine) => last.err = "EINVAL"

\* The spans a transfer of n bytes from address is cut into: <<start, count>>
\* with count = min(remaining, cluster_size - cluster offset of start).
RECURSIVE Spans(_, _, _)
Spans(cluster_size, address, n) ==
  IF n <= 0 THEN <<>>
  ELSE <<<<address, Min(n, cluster_size - (address % cluster_size))>>>>
       \o Spans(cluster_size,
                address + Min(n, cluster_size - (address % cluster_size)),
                n - Min(n, cluster_size - (address % cluster_size)))

\* The file operations of the kind ev in a log, in order.
Events(log, ev) == SelectSeq(log, LAMBDA e : e[1] = ev)

\* C12: a read or write of L bytes at p <= virtual_size that succeeds returns
\* n = min(L, virtual_size - p) and moves the position to p + n; a write
\* transfers the spans of [p, p + n) one file write each, in order, at the
\* cluster offset of the span, and a read one file read for each span whose
\* cluster is allocated.
C12_ClippedAndCutAtClusters ==
  (last.op \in {"read", "write"} /\ last.err = OK) =>
    LET L == IF last.op = "read" THEN last.arg ELSE Len(last.arg)
        n == Min(L, virtual_size(Engine) - last.addr)
        cs == Engine.cluster_size
        spans == Spans(cs, last.addr, n)
        data == Events(last.log, "data")
    IN /\ last.addr <= virtual_size(Engine)
       /\ IF last.op = "read" THEN Len(last.ret) = n ELSE last.ret = n
       /\ current_offset = last.addr + n
       /\ last.op = "write" =>
            /\ Len(data) = Len(spans)
            /\ \A k \in 1..Len(spans) :
                 /\ data[k][2] % cs = spans[k][1] % cs
                 /\ data[k][2] = HostCluster(spans[k][1] \div cs)
                                   + (spans[k][1] % cs)
       /\ last.op = "read" =>
            \A k \in 1..Len(spans) :
              HostCluster(spans[k][1] \div cs) # 0 =>
                \E e \in 1..Len(last.log) :
                  last.log[e] = <<"read", HostCluster(spans[k][1] \div cs)
                                           + (spans[k][1] % cs)>>

\* A write that straddles two clusters, a write clipped at the end of the
\* image, and a read of an allocated cluster clipped at the end.
C12_Witness ==
  \/ last.op = "write" /\ last.err = OK /\ last.ret = 2
       /\ Len(Spans(Engine.cluster_size, last.addr, 2)) = 2
  \/ last.op = "read" /\ last.err = OK /\ Len(last.ret) = 1 /\ last.arg = 8
       /\ HostCluster(last.addr \div Engine.cluster_size) # 0

\* The offset a seek asks for, as an integer.
Asked(pos, position) ==
  CASE pos[1] = "Start" -> pos[2]
    [] pos[1] = "End" -> virtual_size(Engine) + pos[2]
    [] OTHER -> position + pos[2]

\* C13: the position is always within 0..virtual_size; a seek whose target
\* is negative, overflows or is past virtual_size returns EINVAL and leaves
\* the position where it was, and any other seek moves it to the target.
C13_PositionBounded ==
  /\ current_offset >= 0
  /\ current_offset <= virtual_size(Engine)
  /\ last.op = "seek" =>
       IF Asked(last.arg, last.addr) < 0
          \/ Asked(last.arg, last.addr) > virtual_size(Engine)
       THEN last.err = "EINVAL" /\ current_offset = last.addr
       ELSE last.err = OK /\ current_offset = Asked(last.arg, last.addr)

\* A relative seek refused with the position away from 0.
C13_Witness ==
  /\ last.op = "seek" /\ last.err = "EINVAL"
  /\ last.arg[1] = "Current"
  /\ current_offset > 0

(***************************************************************************)
(* Opening a file: the refusals of QcowFile::from, and the header codec.   *)
(***************************************************************************)
\* The errors that match what is wrong with header h, of the defects C14
\* lists.
Matching(h) ==
  (IF h.magic # QCOW_MAGIC THEN {"InvalidMagic"} ELSE {})
  \cup (IF h.version # 3 THEN {"UnsupportedVersion"} ELSE {})
  \cup (IF h.refcount_order # 4 THEN {"UnsupportedRefcountOrder"} ELSE {})
  \cup (IF h.refcount_table_clusters = 0 THEN {"NoRefcountClusters"} ELSE {})
  \cup (IF h.backing_file_offset # 0 THEN {"BackingFilesNotSupported"} ELSE {})
  \cup (IF h.cluster_bits <= MAX_CLUSTER_BITS
           /\ \E o \in {h.l1_table_offset, h.refcount_table_offset,
                         h.snapshots_offset} : o % Pow2(h.cluster_bits) # 0
        THEN {"InvalidOffset"} ELSE {})

\* C14: from refuses, with the matching error and constructing no engine,
\* every file whose header has a wrong magic, a version other than 3, a
\* refcount order other than 4, no refcount table clusters, a backing file
\* offset, or a misaligned L1 table, refcount table or snapshots offset.
C14_HeaderRefused ==
  (last.op = "from" /\ Matching(lineage.wrote) # {}) =>
    /\ last.err \in Matching(lineage.wrote)
    /\ pc = "refused"
    /\ header # lineage.wrote

\* A file refused for a misaligned offset.
C14_Witness ==
  /\ last.op = "from" /\ last.err = "InvalidOffset" /\ pc = "refused"
  /\ lineage.wrote.snapshots_offset = 512

\* C15: from answers InvalidClusterSize to every header whose cluster_bits
\* is above 30 or below 4.
C15_ClusterBitsRefused ==
  (last.op = "from"
     /\ (lineage.wrote.cluster_bits > 30 \/ lineage.wrote.cluster_bits < 4)) =>
    last.err = "InvalidClusterSize"

\* Some L1 entry of the file has bit 62 set.
CompressedOnDisk ==
  \E i \in 0..(lineage.wrote.l1_size - 1) :
    HasFlag(Get(file_data, lineage.wrote.l1_table_offset + 8 * i),
            COMPRESSED_FLAG)

\* C16: from answers CompressedBlocksNotSupported whenever an L1 entry of
\* the file has the compressed bit set (the header being one from accepts).
C16_CompressedRefused ==
  (last.op = "from" /\ lineage.wrote = create_for_size(lineage.size)
     /\ CompressedOnDisk) =>
    last.err = "CompressedBlocksNotSupported"

\* C17: from refuses every image with a crypt method, snapshots, a backing
\* file or a compressed L1 entry.
C17_NonGoalsRefused ==
  (last.op = "from"
     /\ (\/ lineage.wrote.crypt_method # 0
         \/ lineage.wrote.nb_snapshots # 0
         \/ lineage.wrote.backing_file_offset # 0
         \/ CompressedOnDisk)) =>
    (last.err # OK /\ pc = "refused")

\* C18: a header that from accepts, written by write_to to an empty file,
\* is parsed by QcowHeader::new to the same header, field by field, and is
\* the header of the engine when from then builds one.
C18_HeaderRoundTrip ==
  /\ (last.op = "write_to" /\ last.arg.magic = QCOW_MAGIC
        /\ HeaderRefusal(last.arg) = OK) =>
       /\ QcowHeaderNew([file_len |-> file_len, file_data |-> file_data])
            = [err |-> OK, header |-> last.arg]
       /\ \A name \in FieldNames :
            QcowHeaderNew([file_len |-> file_len, file_data |-> file_data])
              .header[name] = last.arg[name]
  /\ (last.op = "from" /\ lineage.by = "write_to" /\ last.err = OK) =>
       header = lineage.wrote

\* A header other than the default one round-tripped and opened.
C18_Witness ==
  /\ last.op = "from" /\ last.err = OK /\ lineage.by = "write_to"
  /\ header.cluster_bits = 9
  /\ header = lineage.wrote

(***************************************************************************)
(* Copy-on-write rotation of L2 tables and refcount blocks.                *)
(***************************************************************************)
\* The cluster is one get_new_cluster hands out: it was available, or lies
\* at or past the end the file had.
NewCluster(c) ==
  c # 0 /\ (c \in SeqRange(last.queues[1]) \/ c >= last.arg.file_len)

\* C19: file_offset_write on an address whose L2 table is cached and whose
\* entry is empty, so that a data cluster is allocated: when the table was
\* clean and its L1 entry non-zero, the old cluster of the table is pushed
\* onto unref_clusters with refcount 0, L1 names a new cluster of refcount 1,
\* and the table has the entry set and is dirty; when the table was dirty,
\* L1[l1_index] is as before and the old cluster is not pushed.
C19_L2Rotation ==
  (last.op = "file_offset_write" /\ last.err = OK) =>
    LET b == last.arg
        i == l1_table_index(Engine, last.addr)
        j == l2_table_index(Engine, last.addr)
        old == Get(b.l1_table, i)
    IN (i \in DOMAIN b.l2_cache /\ Get(b.l2_cache[i].vec, j) = 0) =>
         /\ (~b.l2_cache[i].dirty /\ old # 0) =>
              /\ unref_clusters # last.queues[2]
              /\ old \in SeqRange(unref_clusters)
              /\ old \notin SeqRange(last.queues[2])
              /\ Refcount(old) = 0
              /\ Get(l1_table, i) # old
              /\ NewCluster(Get(l1_table, i))
              /\ Refcount(Get(l1_table, i)) = 1
         /\ b.l2_cache[i].dirty =>
              /\ Get(l1_table, i) = old
              /\ old \notin SeqRange(unref_clusters) \ SeqRange(last.queues[2])
         /\ i \in DOMAIN l2_cache
         /\ l2_cache[i].dirty
         /\ Get(l2_cache[i].vec, j) # 0
         /\ last.ret = Get(l2_cache[i].vec, j) + cluster_offset(Engine, last.addr)

\* A rotation of a clean cached table that L1 named.
C19_Witness ==
  /\ last.op = "file_offset_write" /\ last.err = OK
  /\ l1_table_index(Engine, last.addr) \in DOMAIN last.arg.l2_cache
  /\ ~last.arg.l2_cache[l1_table_index(Engine, last.addr)].dirty
  /\ Get(last.arg.l2_cache[l1_table_index(Engine, last.addr)].vec,
         l2_table_index(Engine, last.addr)) = 0
  /\ Get(last.arg.l1_table, l1_table_index(Engine, last.addr)) # 0
  /\ Get(l1_table, l1_table_index(Engine, last.addr))
       # Get(last.arg.l1_table, l1_table_index(Engine, last.addr))

\* C20: set_cluster_refcount on a cluster whose refcount block is cached:
\* when the block was clean, its old cluster is pushed onto unref_clusters
\* and the refcount table names a new cluster for it, the block holding the
\* count and being dirty; when the block was dirty, neither the refcount
\* table nor unref_clusters changes.
C20_RefblockRotation ==
  (last.op = "set_cluster_refcount" /\ last.err = OK) =>
    LET b == last.arg
        t == get_refcount_index(Engine, last.addr)[1]
        k == get_refcount_index(Engine, last.addr)[2]
        old == Get(b.ref_table, t)
    IN t \in DOMAIN b.refblock_cache =>
         /\ ~b.refblock_cache[t].dirty =>
              /\ old # 0 => (/\ old \in SeqRange(unref_clusters)
                             /\ old \notin SeqRange(last.queues[2]))
              /\ Get(ref_table, t) # old
              /\ NewCluster(Get(ref_table, t))
         /\ b.refblock_cache[t].dirty =>
              /\ ref_table = b.ref_table
              /\ unref_clusters = last.queues[2]
         /\ t \in DOMAIN refblock_cache
         /\ refblock_cache[t].dirty
         /\ last.addr \notin {old, Get(ref_table, t)} =>
              Get(refblock_cache[t].vec, k) = last.ret

\* A rotation of a clean cached block, and a count set in a dirty one.
C20_Witness ==
  /\ last.op = "set_cluster_refcount" /\ last.err = OK
  /\ get_refcount_index(Engine, last.addr)[1] \in DOMAIN last.arg.refblock_cache
  /\ ~last.arg.refblock_cache[get_refcount_index(Engine, last.addr)[1]].dirty
  /\ Get(last.arg.ref_table, get_refcount_index(Engine, last.addr)[1]) # 0
  /\ Get(last.arg.ref_table, get_refcount_index(Engine, last.addr)[1])
       \in SeqRange(unref_clusters)

(***************************************************************************)
(* The refcount manager and the allocator.                                 *)
(***************************************************************************)
\* The clusters get_new_cluster handed out during the last operation: those
\* taken from the end of avail_clusters and those added at the end of the
\* file.
Handed ==
  LET cs == Engine.cluster_size
      first == div_round_up_u64(last.arg.file_len, cs) * cs
  IN {last.queues[1][k] : k \in (Len(avail_clusters) + 1)..Len(last.queues[1])}
       \cup {first + n * cs : n \in 0..(((file_len - first) \div cs) - 1)}

\* C21: when set_cluster_refcount returns successfully, every cluster
\* get_new_cluster handed out during the call has refcount 1 and is named by
\* the refcount table, and none of them is left with refcount 0 outside both
\* unref_clusters and avail_clusters.
C21_HandedOutCounted ==
  (last.op = "set_cluster_refcount" /\ last.err = OK) =>
    \A c \in Handed :
      /\ Refcount(c) = 1
      /\ c \in Range(ref_table)
      /\ ~(/\ Refcount(c) = 0
           /\ c \notin SeqRange(unref_clusters)
           /\ c \notin SeqRange(avail_clusters))

\* C22: set_cluster_refcount(addr, c) on a cluster whose table_index is
\* inside the refcount table succeeds, whatever its block_index and whether
\* or not its refcount block existed, and get_cluster_refcount(addr) then
\* returns c; get_cluster_refcount of a cluster whose refcount table entry
\* is zero returns 0.
C22_SetThenGet ==
  /\ (last.op = "set_cluster_refcount"
        /\ get_refcount_index(Engine, last.addr)[1] < Engine.ref_len) =>
       /\ last.err = OK
       /\ Refcount(last.addr) = last.ret
  /\ pc \in {"idle", "probed"} =>
       \A a \in {0, Engine.l2_entries * Engine.cluster_size} :
         Get(ref_table, get_refcount_index(Engine, a)[1]) = 0 => Refcount(a) = 0

\* C23: on the handle QcowFile::new returns, every cluster from file offset 0
\* up to the end of the refcount table (the header, the L1 table and the
\* refcount table) has refcount exactly 1.
C23_NewCountsTheHead ==
  lineage.stage = "new" =>
    \A n \in 0..(((header.refcount_table_offset
                     + header.refcount_table_clusters * Engine.cluster_size)
                    \div Engine.cluster_size) - 1) :
      Refcount(n * Engine.cluster_size) = 1

\* The handle of new, as new left it, with the cluster of the refcount table
\* counted.
C23_Witness ==
  /\ lineage.stage = "new" /\ last.op = "new"
  /\ header.refcount_table_offset = 2 * Engine.cluster_size
  /\ Refcount(header.refcount_table_offset) = 1
  /\ DOMAIN ref_table # {}

\* The last operation changed no refcount: the refcount table and the
\* cached refcount blocks are as they were, and nothing was written to the
\* file, whose only operation, if any, was set_len.
AllocatedUncounted ==
  /\ ref_table = last.arg.ref_table
  /\ refblock_cache = last.arg.refblock_cache
  /\ \A k \in 1..Len(last.log) : last.log[k][1] = "set_len"
  /\ unref_clusters = last.queues[2]

C27_CacheBounded ==
  (last.op \in {"read", "write"} /\ last.err = OK) =>
    Cardinality(DOMAIN l2_cache) <= L2CacheCapacity

\* C28: after write_to the file ends where the refcount-table region ends,
\* refcount_table_offset + refcount_table_clusters * cluster_size, and the
\* L1 and refcount-table regions lie inside the file and read as zero.
C28_WriteToLength ==
  (last.op = "write_to" /\ pc = "closed") =>
    LET h == last.arg
        region_end == h.refcount_table_offset
                        + h.refcount_table_clusters * Pow2(h.cluster_bits)
    IN /\ file_len = region_end
       /\ \A o \in DOMAIN file_data :
            o >= h.l1_table_offset /\ o < region_end => file_data[o] = 0

\* The words of the table of count words at off in data that are stored
\* as zero: all eight bytes are zero.
StoredZero(data, off, count) ==
  (0..(count - 1)) \ {(o - off) \div 8 :
                        o \in {x \in DOMAIN data : x >= off /\ x < off + 8 * count}}

\* C29: after a flush that succeeds, every L2 table it wrote, whose non-zero
\* entries lie inside the offset mask, is read back from its cluster with
\* the offset mask as the table it is; on the file its non-zero entries carry
\* the used flag and nothing else in the top byte, and its zero entries are
\* eight zero bytes. The L1 table and the refcount table are read back
\* without a mask as they are, so their words carry no flag.
C29_PointerTableRoundTrip ==
  (last.op = "flush" /\ last.err = OK) =>
    /\ \A t \in DOMAIN l2_cache :
         LET off == Get(l1_table, t)
             tab == l2_cache[t].vec
         IN (/\ <<"l2", off>> \in SeqRange(last.log)
             /\ \A i \in DOMAIN tab :
                  tab[i] < Huge /\ tab[i] % OFFSET_MASK_LOW = 0) =>
              /\ DiskTable(file_data, off, Engine.l2_entries, TRUE) = tab
              /\ \A i \in DOMAIN tab :
                   Get(file_data, off + 8 * i) = CLUSTER_USED_FLAG
              /\ StoredZero(file_data, off, Engine.l2_entries)
                   = (0..(Engine.l2_entries - 1)) \ DOMAIN tab
    /\ DiskTable(file_data, header.l1_table_offset, header.l1_size, FALSE)
         = l1_table
    /\ \A i \in DOMAIN l1_table :
         Get(file_data, header.l1_table_offset + 8 * i) = 0
    /\ DiskTable(file_data, header.refcount_table_offset, Engine.ref_len, FALSE)
         = ref_table
    /\ \A i \in DOMAIN ref_table :
         Get(file_data, header.refcount_table_offset + 8 * i) = 0

\* A flush has succeeded that wrote an L2 table with entries inside the
\* offset mask, zero and non-zero, and both root tables hold an entry.
C29_Witness ==
  /\ last.op = "flush" /\ last.err = OK
  /\ DOMAIN l1_table # {} /\ DOMAIN ref_table # {}
  /\ \E t \in DOMAIN l2_cache :
       /\ <<"l2", Get(l1_table, t)>> \in SeqRange(last.log)
       /\ DOMAIN l2_cache[t].vec # {}
       /\ DOMAIN l2_cache[t].vec # 0..(Engine.l2_entries - 1)
       /\ \A i \in DOMAIN l2_cache[t].vec :
            l2_cache[t].vec[i] % OFFSET_MASK_LOW = 0

\* C30: a drop, with the file failing at any of its operations or not at
\* all, does on the file what a flush of the same engine under the same
\* failure does (the writes of the dirty L2 tables, of the dirty refcount
\* blocks, sync_all, the L1 table, the refcount table, sync_data, up to the
\* failure), leaves the caches as that flush leaves them, does not promote
\* the unreferenced clusters, and surfaces no error; the indexes sync_caches
\* unwraps are inside the root tables, so it does not panic.
C30_DropIsFlushUnreported ==
  [][(last'.op = "drop") =>
       LET f == flush(Start(last'.arg.iofail, last'.arg.order))
       IN /\ last'.err = OK
          /\ f.err \in {OK, "EIO", "EINVAL"}
          /\ \A i \in DOMAIN l2_cache : i < header.l1_size
          /\ \A t \in DOMAIN refblock_cache : t < Engine.ref_len
          /\ f.log = IF Failed(f) THEN last'.log
                     ELSE Append(last'.log, <<"promote", Len(unref_clusters)>>)
          /\ file_data' = f.file_data /\ file_len' = f.file_len
          /\ stable_data' = f.stable_data /\ stable_len' = f.stable_len
          /\ l2_cache' = f.l2_cache /\ refblock_cache' = f.refblock_cache
          /\ l1_table' = l1_table /\ ref_table' = ref_table
          /\ avail_clusters' = avail_clusters
          /\ unref_clusters' = unref_clusters]_vars

\* A drop during which the file failed after an L2 table was written and
\* before the root tables were synced: the handle is gone and no error was
\* returned.
C30_Witness ==
  /\ last.op = "drop" /\ last.err = OK /\ pc = "closed"
  /\ last.arg.iofail # None
  /\ Pos("l2") # {} /\ Pos("sync_data") = {}
  /\ last.queues[2] # <<>>

\* The bytes the backing file takes of a write of count bytes at address
\* when it accepts at most accept bytes of each span.
RECURSIVE AcceptedBytes(_, _, _)
AcceptedBytes(address, count, accept) ==
  IF count = 0 THEN 0
  ELSE LET span == limit_range_cluster(Engine, address, count)
       IN Min(span, accept) + AcceptedBytes(address + span, count - span, accept)

\* C31: a write during which the backing file accepts fewer bytes than a
\* span returns the number of bytes the file accepted, and the position
\* moves by that number.
C31_ShortWritePropagated ==
  (last.op = "write" /\ last.err = OK /\ DOMAIN last.arg = {"buf", "accept"}) =>
    LET taken == AcceptedBytes(last.addr,
                               limit_range_file(Engine, last.addr,
                                                Len(last.arg.buf)),
                               last.arg.accept)
    IN /\ last.ret = taken
       /\ current_offset = last.addr + taken

\* C32: a read, a write or a flush that returns an error leaves the L1 table
\* and the refcount table in the file as they were before it.
C32_FailedOperationCommitsNothing ==
  [][(last'.op \in {"read", "write", "flush"} /\ last'.err # OK) =>
       /\ DiskL1(file_data') = DiskL1(file_data)
       /\ DiskRefTable(file_data') = DiskRefTable(file_data)]_vars

\* The engine QcowFile::from gives on the file as it is now.
Reopened ==
  from([file_len |-> file_len, file_data |-> file_data,
        stable_len |-> stable_len, stable_data |-> stable_data])

\* The addresses the two handles are read at, eight bytes each: the start,
\* around the two cluster boundaries written across and at, and the end.
ReopenAddrs == {0, 65532, 131070, virtual_size(Engine) - 8}

\* What a read of eight bytes at address returns on engine q.
ReadAt(q, address) == read(seek(q, address), 8).ret

\* C33: after a flush that succeeds, from opens the file, the engine it
\* gives has the L1 table and the refcount table the flushed handle has in
\* memory, and a read at any address returns on it what it returns on the
\* flushed handle.
C33_ReopenedEqualsFlushed ==
  (last.op = "flush" /\ last.err = OK) =>
    /\ ~Failed(Reopened)
    /\ Reopened.l1_table = l1_table
    /\ Reopened.ref_table = ref_table
    /\ \A a \in ReopenAddrs, order \in Orders :
         /\ ~Failed(read(seek(Start(None, order), a), 8))
         /\ ReadAt([Reopened EXCEPT !.order = order], a)
              = ReadAt(Start(None, order), a)

\* A flush has succeeded after writes across the first cluster boundary and
\* at the second, and the engine from gives on the file reads them.
C33_Witness ==
  /\ last.op = "flush" /\ last.err = OK
  /\ {65535, 65536, 131072, 131073} \subseteq written
  /\ DOMAIN l1_table # {}
  /\ ~Failed(Reopened)
  /\ ReadAt(Reopened, 65532) = <<0, 0, 0, 85, 86, 0, 0, 0>>
  /\ ReadAt(Reopened, 131070)[3] = 85

\* The clusters of the header, the L1 table and the refcount table.
HeadClusters ==
  LET head_end == header.refcount_table_offset
                    + header.refcount_table_clusters * Engine.cluster_size
  IN {c * Engine.cluster_size :
        c \in 0..(div_round_up_u64(head_end, Engine.cluster_size) - 1)}

\* The entries of the L2 tables the engine sees: <<l1 index, l2 index>>.
DataEntries ==
  {e \in UNION {{<<i, j>> : j \in DOMAIN L2TableOf(i)} :
                  i \in DOMAIN l1_table \cup DOMAIN l2_cache} : TRUE}

\* The host cluster of an entry.
DataCluster(e) == L2TableOf(e[1])[e[2]]

\* C34: no host cluster has two owners. Two entries of the L2 tables name
\* different clusters; a data cluster is not an L2 table, a refcount block
\* or a cluster of the header, L1 table and refcount table; two root entries
\* name different clusters, outside the head of the file; a cluster of
\* avail_clusters or unref_clusters is named by no root entry and no cached
\* L2 entry, and is in the queues once.
C34_OneOwner ==
  LET roots == Range(l1_table) \cup Range(ref_table)
      queues == avail_clusters \o unref_clusters
  IN /\ \A d, e \in DataEntries : d # e => DataCluster(d) # DataCluster(e)
     /\ \A e \in DataEntries : DataCluster(e) \notin roots \cup HeadClusters
     /\ \A i, j \in DOMAIN l1_table : i # j => l1_table[i] # l1_table[j]
     /\ \A i, j \in DOMAIN ref_table : i # j => ref_table[i] # ref_table[j]
     /\ Range(l1_table) \cap Range(ref_table) = {}
     /\ roots \cap HeadClusters = {}
     /\ \A k \in 1..Len(queues) :
          /\ queues[k] \notin roots
          /\ \A i \in DOMAIN l2_cache : queues[k] \notin Range(l2_cache[i].vec)
          /\ \A n \in 1..Len(queues) : n # k => queues[n] # queues[k]

\* The virtual clusters a write was issued for.
WrittenClusters == {a \div Engine.cluster_size : a \in written}

\* C35: a virtual cluster that has a host cluster keeps it in every step
\* (a read, a write with its rotation of the L2 table and its evictions, a
\* flush, a drop, a reopening), and a read or a write that succeeds
\* transfers each span of such a cluster at that host cluster plus the
\* offset of the span in the cluster.
C35_MappingStable ==
  [][\A vc \in WrittenClusters :
       HostCluster(vc) # 0 =>
         /\ HostCluster(vc)' = HostCluster(vc)
         /\ (last'.op \in {"read", "write"} /\ last'.err = OK) =>
              LET cs == Engine.cluster_size
                  n == IF last'.op = "read" THEN Len(last'.ret) ELSE last'.ret
                  spans == Spans(cs, last'.addr, n)
              IN \A k \in 1..Len(spans) :
                   spans[k][1] \div cs = vc =>
                     <<IF last'.op = "read" THEN "read" ELSE "data",
                       HostCluster(vc) + (spans[k][1] % cs)>>
                       \in SeqRange(last'.log)]_vars

\* C37: a read, whether it succeeds or fails, leaves the L1 table, the
\* refcount table, the refcount blocks in the cache and in the file, both
\* queues and the length of the file as they were.
C37_ReadAllocatesNothing ==
  [][last'.op = "read" =>
       /\ l1_table' = l1_table
       /\ ref_table' = ref_table
       /\ refblock_cache' = refblock_cache
       /\ \A t \in DOMAIN ref_table :
            ClusterBytes(file_data', ref_table[t])
              = ClusterBytes(file_data, ref_table[t])
       /\ unref_clusters' = unref_clusters
       /\ avail_clusters' = avail_clusters
       /\ file_len' = file_len]_vars

\* A read has loaded an L2 table from the file, written the dirty table it
\* evicted, and returned bytes written before.
C37_Witness ==
  /\ last.op = "read" /\ last.err = OK
  /\ Pos("l2") # {} /\ Cardinality(Pos("read")) >= 2
  /\ \E i \in 1..Len(last.ret) : last.ret[i] # 0

\* C38: a write all of whose virtual clusters have a host cluster leaves
\* the L1 table, the refcount table, the refcount blocks with their dirty
\* bits, the L2 entries and the dirty bit of every L2 table that stays
\* cached, both queues and the length of the file as they were; an L2 table
\* it loads is clean.
C38_WriteInPlace ==
  [][(/\ last'.op = "write"
      /\ limit_range_file(Engine, current_offset, Len(last'.arg)) > 0
      /\ \A vc \in ClustersOf(current_offset,
                              limit_range_file(Engine, current_offset,
                                               Len(last'.arg))) :
           HostCluster(vc) # 0) =>
       /\ l1_table' = l1_table
       /\ ref_table' = ref_table
       /\ refblock_cache' = refblock_cache
       /\ \A i \in DOMAIN l2_cache' :
            IF i \in DOMAIN l2_cache THEN l2_cache'[i] = l2_cache[i]
            ELSE ~l2_cache'[i].dirty
       /\ unref_clusters' = unref_clusters
       /\ avail_clusters' = avail_clusters
       /\ file_len' = file_len]_vars

\* A write has succeeded on two clusters that had their host clusters, with
\* the L2 table loaded for it and a dirty table evicted and written.
C38_Witness ==
  /\ last.op = "write" /\ last.err = OK /\ last.ret = 2
  /\ Events(last.log, "data") # <<>>
  /\ Pos("set_len") = {}
  /\ Pos("read") # {} /\ Pos("l2") # {}

C40_FlushIdempotent ==
  [][(last.op = "flush" /\ last.err = OK /\ last'.op = "flush" /\ ops' = ops + 1) =>
       /\ \A k \in 1..Len(last'.log) : last'.log[k][1] \notin {"l2", "refblock"}
       /\ file_data' = file_data
       /\ file_len' = file_len
       /\ l1_table' = l1_table
       /\ ref_table' = ref_table
       /\ avail_clusters' = avail_clusters
       /\ unref_clusters' = unref_clusters
       /\ last'.err = OK =>
            last'.log = << <<"sync_all", 0>>,
                           <<"l1", header.l1_table_offset>>,
                           <<"reftable", header.refcount_table_offset>>,
                           <<"sync_data", 0>>, <<"promote", 0>> >>]_vars

\* A write, a flush and a second flush, all successful: the second flush
\* found the write's data flushed and wrote the roots only.
C40_Witness ==
  /\ ops = 3
  /\ last.op = "flush" /\ last.err = OK /\ Len(last.log) = 5
  /\ pend # NoPend /\ pend.flushed
  /\ written # {}

====
